---- MODULE Spec2Model ----
(***************************************************************************)
(* A model of the xmonkey interpreter: the environment chain               *)
(* (object/environment.go), the tree-walking evaluator                     *)
(* (evaluator/evaluator.go) and the Pratt parser (parser/parser.go).       *)
(*                                                                         *)
(* Go objects are records that carry the address they were allocated at,   *)
(* so that Go's pointer comparison (left == right on two interfaces) is    *)
(* comparison of addresses.  A Go run-time panic (nil dereference, index   *)
(* out of range, integer divide by zero) is the pseudo value PANIC, which  *)
(* unwinds every enclosing call.                                           *)
(***************************************************************************)
EXTENDS Integers, Sequences, FiniteSets, TLC

\* ------------------------------------------------------------------ bounds
\* int64 is modelled as a two's-complement word of WordBits bits
WordBits == 8
\* deepest nesting of user-function calls that is followed
MaxCallDepth == 4
\* integer literals used as the quantified inputs a, b of the programs
MaxLit == 2

RECURSIVE Pow2(_)
Pow2(n) == IF n = 0 THEN 1 ELSE 2 * Pow2(n - 1)

MinInt == 0 - Pow2(WordBits - 1)
MaxInt == Pow2(WordBits - 1) - 1

\* reduction of a mathematical integer into the signed word
Wrap(x) == ((x + Pow2(WordBits - 1)) % Pow2(WordBits)) - Pow2(WordBits - 1)

\* Go's integer division truncates toward zero
\* a quotient rounded down instead of toward zero
Quot_Floor(a, b) == a \div b

Quot(a, b) ==
    LET abs(x) == IF x < 0 THEN 0 - x ELSE x
        q == abs(a) \div abs(b)
    IN IF (a < 0) = (b < 0) THEN q ELSE 0 - q

\* ------------------------------------------------------------- ast nodes
NilNode == [node |-> "nil"]
Program(stmts) == [node |-> "Program", Statements |-> stmts]
BlockStatement(stmts) == [node |-> "BlockStatement", Statements |-> stmts]
LetStatement(name, value) == [node |-> "LetStatement", Name |-> name, Value |-> value]
ReturnStatement(value) == [node |-> "ReturnStatement", ReturnValue |-> value]
ExpressionStatement(value) == [node |-> "ExpressionStatement", ExpressionValue |-> value]
Identifier(name) == [node |-> "Identifier", Name |-> name]
IntegerLiteral(n) == [node |-> "IntegerLiteral", IntValue |-> n]
BooleanLiteral(b) == [node |-> "Boolean", BoolValue |-> b]
StringLiteral(s) == [node |-> "StringLiteral", StrValue |-> s]
PrefixExpression(op, right) == [node |-> "PrefixExpression", Operator |-> op, Right |-> right]
InfixExpression(left, op, right) ==
    [node |-> "InfixExpression", Left |-> left, Operator |-> op, Right |-> right]
IfExpression(cond, cons, alt) ==
    [node |-> "IfExpression", Condition |-> cond, Consequence |-> cons, Alternative |-> alt]
FunctionLiteral(params, body) ==
    [node |-> "FunctionLiteral", FormalParams |-> params, Body |-> body]
CallExpression(fn, args) ==
    [node |-> "CallExpression", CallableName |-> fn, ActualParams |-> args]
ArrayLiteral(elems) == [node |-> "ArrayLiteral", Elements |-> elems]
IndexExpression(left, index) == [node |-> "IndexExpression", Left |-> left, Index |-> index]

\* ---------------------------------------------------------------- objects
\* the nil interface value
GoNil == [type |-> "nil"]
\* a run-time panic of the Go program
Panic(msg) == [type |-> "PANIC", Message |-> msg]
IsPanic(obj) == obj.type = "PANIC"

\* the three package-level singletons of the evaluator
NULL == [type |-> "NULL", addr |-> 1]
TRUE_ == [type |-> "BOOLEAN", bval |-> TRUE, addr |-> 2]
FALSE_ == [type |-> "BOOLEAN", bval |-> FALSE, addr |-> 3]

\* the names registered in the builtins table, in the order of their addresses
builtinNames == <<"len", "first", "last", "rest", "push", "puts">>
BuiltinIndex(name) == CHOOSE i \in 1..Len(builtinNames) : builtinNames[i] = name
IsBuiltinName(name) == \E i \in 1..Len(builtinNames) : builtinNames[i] = name
builtins(name) == [type |-> "BUILTIN", bname |-> name, addr |-> 3 + BuiltinIndex(name)]

\* first address handed out by an allocation during evaluation
FirstAddr == 4 + Len(builtinNames)

Integer(n, a) == [type |-> "INTEGER", ival |-> n, addr |-> a]
String(s, a) == [type |-> "STRING", sval |-> s, addr |-> a]
Array(elems, a) == [type |-> "ARRAY", Elements |-> elems, addr |-> a]
ReturnValue(v, a) == [type |-> "RETURN_VALUE", Value |-> v, addr |-> a]
Error(msg, a) == [type |-> "ERROR", Message |-> msg, addr |-> a]
Function(params, body, env, a) ==
    [type |-> "FUNCTION", FormalParams |-> params, Body |-> body,
     EnvWhenDefined |-> env, addr |-> a]

\* Go's == on two interface values holding pointers: the same object
SameObject(x, y) ==
    IF x.type = "nil" \/ y.type = "nil" THEN x.type = y.type ELSE x.addr = y.addr

\* ----------------------------------------------------------- environment
\* The heap of environments is a sequence; an Environment pointer is an
\* index into it and the nil pointer is 0.
NilEnv == 0
EmptyStore == [n \in {} |-> GoNil]

\* a memory: the environments, the allocation counter and the ghost records
\*   log   - every node Eval was entered with, in order
\*   calls - one record per completed user-function call
\*   errs  - one record per Error object created: its address and the
\*           length of the log at that moment
EmptyMem == [envs |-> <<>>, nobj |-> FirstAddr, log |-> <<>>, calls |-> <<>>, errs |-> <<>>]

\* result of an operation that returns a value and may change the memory
R(v, m) == [val |-> v, m |-> m]

NewEnvironment(m) ==
    [env |-> Len(m.envs) + 1,
     m |-> [m EXCEPT !.envs = Append(@, [store |-> EmptyStore, outer |-> NilEnv])]]

NewEnclosedEnv(outer, m) ==
    LET e == NewEnvironment(m)
    IN [env |-> e.env, m |-> [e.m EXCEPT !.envs[e.env].outer = outer]]

\* mutant: the lookup stops at the environment's own store
Get_OwnStoreOnly(envs, r, name) ==
    LET ok == name \in DOMAIN envs[r].store
    IN [obj |-> IF ok THEN envs[r].store[name] ELSE GoNil, ok |-> ok]

RECURSIVE Get(_, _, _)
Get(envs, r, name) ==
    LET ok == name \in DOMAIN envs[r].store
    IN IF ~ok /\ envs[r].outer # NilEnv
       THEN Get(envs, envs[r].outer, name)
       ELSE [obj |-> IF ok THEN envs[r].store[name] ELSE GoNil, ok |-> ok]

StoreSet(store, name, val) ==
    [n \in (DOMAIN store) \cup {name} |-> IF n = name THEN val ELSE store[n]]

Set(envs, r, name, val) ==
    [envs EXCEPT ![r].store = StoreSet(@, name, val)]

\* -------------------------------------------------------------- evaluator
Bump(m) == [m EXCEPT !.nobj = @ + 1]
NewInteger(n, m) == R(Integer(n, m.nobj), Bump(m))
NewString(s, m) == R(String(s, m.nobj), Bump(m))
NewArray(elems, m) == R(Array(elems, m.nobj), Bump(m))

newError(msg, m) ==
    R(Error(msg, m.nobj),
      [Bump(m) EXCEPT !.errs = Append(@, [addr |-> m.nobj, at |-> Len(m.log)])])

isError(obj) == IF obj.type # "nil" THEN obj.type = "ERROR" ELSE FALSE

\* a conversion that makes a new Boolean object every time
nativeBoolToBooleanObject_Fresh(input) == [type |-> "BOOLEAN", bval |-> input, addr |-> 0]

nativeBoolToBooleanObject(input) == IF input THEN TRUE_ ELSE FALSE_

evalBangOperator(right) ==
    IF SameObject(right, TRUE_) THEN FALSE_
    ELSE IF SameObject(right, FALSE_) THEN TRUE_
    ELSE IF SameObject(right, NULL) THEN TRUE_
    ELSE FALSE_

evalMinusPrefixOperator(right, m) ==
    IF right.type = "nil" THEN R(NULL, m)
    ELSE IF right.type # "INTEGER" THEN newError("unknown operator: -" \o right.type, m)
    ELSE NewInteger(Wrap(0 - right.ival), m)

evalPrefixExpression(operator, right, m) ==
    IF operator = "!" THEN R(evalBangOperator(right), m)
    ELSE IF operator = "-" THEN evalMinusPrefixOperator(right, m)
    ELSE IF right.type = "nil" THEN R(Panic("nil pointer dereference"), m)
    ELSE newError("unknown operator: " \o operator \o right.type, m)

evalIntegerInfix(op, left, right, m) ==
    LET leftVal == left.ival
        rightVal == right.ival
    IN CASE op = "+" -> NewInteger(Wrap(leftVal + rightVal), m)
         [] op = "-" -> NewInteger(Wrap(leftVal - rightVal), m)
         [] op = "*" -> NewInteger(Wrap(leftVal * rightVal), m)
         [] op = "/" -> IF rightVal = 0
                        THEN R(Panic("integer divide by zero"), m)
                        ELSE NewInteger(Wrap(Quot(leftVal, rightVal)), m)
         [] op = "<" -> R(nativeBoolToBooleanObject(leftVal < rightVal), m)
         [] op = ">" -> R(nativeBoolToBooleanObject(leftVal > rightVal), m)
         [] op = "==" -> R(nativeBoolToBooleanObject(leftVal = rightVal), m)
         [] op = "!=" -> R(nativeBoolToBooleanObject(leftVal # rightVal), m)
         [] OTHER -> newError("unknown operator: " \o left.type \o " " \o op \o " " \o right.type, m)

evalStringInfixExpression(op, left, right, m) ==
    IF op # "+"
    THEN newError("unknown operator: " \o left.type \o " " \o op \o " " \o right.type, m)
    ELSE NewString(left.sval \o right.sval, m)

\* a switch that tries the type mismatch before == and !=
evalInfixExpression_MismatchFirst(op, left, right, m) ==
    IF left.type = "INTEGER" /\ right.type = "INTEGER"
    THEN evalIntegerInfix(op, left, right, m)
    ELSE IF left.type # right.type
    THEN newError("type mismatch: " \o left.type \o " " \o op \o " " \o right.type, m)
    ELSE IF op = "==" THEN R(nativeBoolToBooleanObject(SameObject(left, right)), m)
    ELSE IF op = "!=" THEN R(nativeBoolToBooleanObject(~SameObject(left, right)), m)
    ELSE IF left.type = "STRING"
    THEN evalStringInfixExpression(op, left, right, m)
    ELSE newError("unknown operator: " \o left.type \o " " \o op \o " " \o right.type, m)

\* the cases of the switch are tried in order; x.Type() on a nil interface panics
evalInfixExpression(op, left, right, m) ==
    IF left.type = "nil" THEN R(Panic("nil pointer dereference"), m)
    ELSE IF left.type = "INTEGER" /\ right.type = "nil"
    THEN R(Panic("nil pointer dereference"), m)
    ELSE IF left.type = "INTEGER" /\ right.type = "INTEGER"
    THEN evalIntegerInfix(op, left, right, m)
    ELSE IF op = "==" THEN R(nativeBoolToBooleanObject(SameObject(left, right)), m)
    ELSE IF op = "!=" THEN R(nativeBoolToBooleanObject(~SameObject(left, right)), m)
    ELSE IF right.type = "nil" THEN R(Panic("nil pointer dereference"), m)
    ELSE IF left.type # right.type
    THEN newError("type mismatch: " \o left.type \o " " \o op \o " " \o right.type, m)
    ELSE IF left.type = "STRING" /\ right.type = "STRING"
    THEN evalStringInfixExpression(op, left, right, m)
    ELSE newError("unknown operator: " \o left.type \o " " \o op \o " " \o right.type, m)

\* a truthiness in which the integer 0 is falsy as well
isTruthy_ZeroFalsy(obj) ==
    ~SameObject(obj, NULL) /\ ~SameObject(obj, FALSE_)
        /\ ~(obj.type = "INTEGER" /\ obj.ival = 0)

isTruthy(obj) ==
    IF SameObject(obj, NULL) THEN FALSE
    ELSE IF SameObject(obj, TRUE_) THEN TRUE
    ELSE IF SameObject(obj, FALSE_) THEN FALSE
    ELSE TRUE

\* mutant: the built-ins are looked up before the environment
evalIdentifier_BuiltinFirst(node, env, m) ==
    LET g == Get(m.envs, env, node.Name)
    IN IF IsBuiltinName(node.Name) THEN R(builtins(node.Name), m)
       ELSE IF g.ok THEN R(g.obj, m)
       ELSE newError("identifier not found: " \o node.Name, m)

evalIdentifier(node, env, m) ==
    LET g == Get(m.envs, env, node.Name)
    IN IF g.ok THEN R(g.obj, m)
       ELSE IF IsBuiltinName(node.Name) THEN R(builtins(node.Name), m)
       ELSE newError("identifier not found: " \o node.Name, m)

\* an index check that is off by one at the upper end
evalArrayIndexExpression_OffByOne(array, index) ==
    LET idx == index.ival
        max == Len(array.Elements) - 1
    IN IF idx < 0 \/ idx >= max THEN NULL ELSE array.Elements[idx + 1]

evalArrayIndexExpression(array, index) ==
    LET idx == index.ival
        max == Len(array.Elements) - 1
    IN IF idx < 0 \/ idx > max THEN NULL ELSE array.Elements[idx + 1]

evalIndexExpresson(left, index, m) ==
    IF left.type = "nil" THEN R(Panic("nil pointer dereference"), m)
    ELSE IF left.type = "ARRAY" /\ index.type = "nil"
    THEN R(Panic("nil pointer dereference"), m)
    ELSE IF left.type = "ARRAY" /\ index.type = "INTEGER"
    THEN R(evalArrayIndexExpression(left, index), m)
    ELSE newError("index operator not supported: " \o left.type, m)

unwrapReturnValue(obj) == IF obj.type = "RETURN_VALUE" THEN obj.Value ELSE obj

\* binds the formals in order; args[paramIdx] beyond the arguments panics
RECURSIVE bindParams(_, _, _, _, _)
bindParams(params, args, i, env, m) ==
    IF i > Len(params) THEN [env |-> env, m |-> m, panic |-> FALSE]
    ELSE IF i > Len(args) THEN [env |-> env, m |-> m, panic |-> TRUE]
    ELSE bindParams(params, args, i + 1, env,
                    [m EXCEPT !.envs = Set(@, env, params[i], args[i])])

\* mutant: the formals are bound in the defining environment itself
createCallEnv_NoScope(fn, args, m) ==
    bindParams(fn.FormalParams, args, 1, fn.EnvWhenDefined, m)

\* a call environment that is refused when the numbers of arguments and of
\* formal parameters differ
createCallEnv_Arity(fn, args, m) ==
    LET e == NewEnclosedEnv(fn.EnvWhenDefined, m)
    IN IF Len(args) # Len(fn.FormalParams)
       THEN [env |-> e.env, m |-> e.m, panic |-> TRUE]
       ELSE bindParams(fn.FormalParams, args, 1, e.env, e.m)

\* a call environment whose outer link is the first environment, the one
\* of the program
createCallEnv_Global(fn, args, m) ==
    LET e == NewEnclosedEnv(1, m)
    IN bindParams(fn.FormalParams, args, 1, e.env, e.m)

createCallEnv(fn, args, m) ==
    LET e == NewEnclosedEnv(fn.EnvWhenDefined, m)
    IN bindParams(fn.FormalParams, args, 1, e.env, e.m)

\* the host functions of the builtins table (builtins.go is not among the
\* sources; modelled after the table of built-ins in the specification)
BuiltinFn(name, args, m) ==
    LET wrong(want) == newError("wrong number of arguments. got=" \o ToString(Len(args))
                                \o ", want=" \o ToString(want), m)
        unsupported == newError("argument to " \o name \o " not supported, got "
                                \o args[1].type, m)
        elems == args[1].Elements
        want == IF name = "push" THEN 2 ELSE 1
    IN IF name = "puts" THEN R(NULL, m)
       ELSE IF Len(args) # want THEN wrong(want)
       ELSE IF args[1].type = "nil" THEN R(Panic("nil pointer dereference"), m)
       ELSE IF name = "len" /\ args[1].type = "STRING" THEN NewInteger(Len(args[1].sval), m)
       ELSE IF args[1].type # "ARRAY" THEN unsupported
       ELSE CASE name = "len" -> NewInteger(Len(elems), m)
              [] name = "first" -> R(IF Len(elems) > 0 THEN elems[1] ELSE NULL, m)
              [] name = "last" -> R(IF Len(elems) > 0 THEN elems[Len(elems)] ELSE NULL, m)
              [] name = "rest" -> IF Len(elems) > 0 THEN NewArray(Tail(elems), m) ELSE R(NULL, m)
              [] name = "push" -> NewArray(Append(elems, args[2]), m)

RECURSIVE Eval(_, _, _, _)
RECURSIVE evalBlockFrom(_, _, _, _, _, _)
RECURSIVE evalExpressionsFrom(_, _, _, _, _, _)
RECURSIVE evalIfExpression(_, _, _, _)
RECURSIVE applyFunction(_, _, _, _)

\* the loop of evalBlockStatement from statement i on, result being the
\* value of the statement before
evalBlockFrom(stmts, i, result, env, d, m) ==
    IF i > Len(stmts) THEN R(result, m)
    ELSE LET r == Eval(stmts[i], env, d, m)
         IN IF IsPanic(r.val) THEN r
            ELSE IF r.val.type # "nil"
                    /\ (r.val.type = "RETURN_VALUE" \/ r.val.type = "ERROR")
            THEN r
            ELSE evalBlockFrom(stmts, i + 1, r.val, env, d, r.m)

evalBlockStatement(block, env, d, m) ==
    evalBlockFrom(block.Statements, 1, GoNil, env, d, m)

\* the loop of evalExpressions from expression i on
evalExpressionsFrom(exps, i, result, env, d, m) ==
    IF i > Len(exps) THEN [list |-> result, m |-> m]
    ELSE LET evaluated == Eval(exps[i], env, d, m)
         IN IF IsPanic(evaluated.val) \/ isError(evaluated.val)
            THEN [list |-> <<evaluated.val>>, m |-> evaluated.m]
            ELSE evalExpressionsFrom(exps, i + 1, Append(result, evaluated.val),
                                     env, d, evaluated.m)

evalExpressions(exps, env, d, m) == evalExpressionsFrom(exps, 1, <<>>, env, d, m)

\* an if whose blocks run in an environment of their own, enclosed in the
\* environment of the if
evalIfExpression_Scoped(expr, env, d, m) ==
    LET cond == Eval(expr.Condition, env, d, m)
        inner(e) == Eval(IF isTruthy(cond.val) THEN expr.Consequence ELSE expr.Alternative,
                         e.env, d, e.m)
    IN IF IsPanic(cond.val) \/ isError(cond.val) THEN cond
       ELSE IF isTruthy(cond.val) \/ expr.Alternative # NilNode
       THEN inner(NewEnclosedEnv(env, cond.m))
       ELSE R(NULL, cond.m)

evalIfExpression(expr, env, d, m) ==
    LET cond == Eval(expr.Condition, env, d, m)
    IN IF IsPanic(cond.val) \/ isError(cond.val) THEN cond
       ELSE IF isTruthy(cond.val) THEN Eval(expr.Consequence, env, d, cond.m)
       ELSE IF expr.Alternative # NilNode THEN Eval(expr.Alternative, env, d, cond.m)
       ELSE R(NULL, cond.m)

applyFunction(fn, args, d, m) ==
    IF fn.type = "FUNCTION"
    THEN IF d >= MaxCallDepth THEN R(Panic("stack overflow"), m)
         ELSE LET extendedEnv == createCallEnv(fn, args, m)
                  evaluated == Eval(fn.Body, extendedEnv.env, d + 1, extendedEnv.m)
              IN IF extendedEnv.panic THEN R(Panic("index out of range"), extendedEnv.m)
                 ELSE IF IsPanic(evaluated.val) THEN evaluated
                 ELSE R(unwrapReturnValue(evaluated.val), evaluated.m)
    ELSE IF fn.type = "BUILTIN" THEN BuiltinFn(fn.bname, args, m)
    ELSE IF fn.type = "nil" THEN R(Panic("nil pointer dereference"), m)
    ELSE newError("not a function: " \o fn.type, m)

\* ghost: the environments before and after a completed user-function call
RecordCall(fn, caller, before, r) ==
    IF fn.type = "FUNCTION" /\ ~IsPanic(r.val)
    THEN [r EXCEPT !.m.calls = Append(@, [fn |-> fn.addr, defined |-> fn.EnvWhenDefined,
                                          caller |-> caller, callEnv |-> Len(before) + 1,
                                          before |-> before, after |-> r.m.envs])]
    ELSE r

EvalReturnStatement(node, env, d, m) ==
    LET val == Eval(node.ReturnValue, env, d, m)
    IN IF IsPanic(val.val) \/ isError(val.val) THEN val
       ELSE R(ReturnValue(val.val, val.m.nobj), Bump(val.m))

\* a let that binds the name before it looks at the error
EvalLetStatement_BindFirst(node, env, d, m) ==
    LET bound(val) ==
            IF IsPanic(val.val) THEN val
            ELSE R(IF isError(val.val) THEN val.val ELSE GoNil,
                   [val.m EXCEPT !.envs = Set(@, env, node.Name, val.val)])
    IN bound(Eval(node.Value, env, d, m))

EvalLetStatement(node, env, d, m) ==
    LET val == Eval(node.Value, env, d, m)
    IN IF IsPanic(val.val) \/ isError(val.val) THEN val
       ELSE R(GoNil, [val.m EXCEPT !.envs = Set(@, env, node.Name, val.val)])

EvalPrefixExpression(node, env, d, m) ==
    LET right == Eval(node.Right, env, d, m)
    IN IF IsPanic(right.val) \/ isError(right.val) THEN right
       ELSE evalPrefixExpression(node.Operator, right.val, right.m)

\* mutant: the left operand is not tested for an error
EvalInfixExpression_NoLeftCheck(node, env, d, m) ==
    LET left == Eval(node.Left, env, d, m)
        right == Eval(node.Right, env, d, left.m)
    IN IF IsPanic(left.val) THEN left
       ELSE IF IsPanic(right.val) \/ isError(right.val) THEN right
       ELSE evalInfixExpression(node.Operator, left.val, right.val, right.m)

EvalInfixExpression(node, env, d, m) ==
    LET left == Eval(node.Left, env, d, m)
        right == Eval(node.Right, env, d, left.m)
    IN IF IsPanic(left.val) \/ isError(left.val) THEN left
       ELSE IF IsPanic(right.val) \/ isError(right.val) THEN right
       ELSE evalInfixExpression(node.Operator, left.val, right.val, right.m)

EvalCallExpression(node, env, d, m) ==
    LET fun == Eval(node.CallableName, env, d, m)
        actualParams == evalExpressions(node.ActualParams, env, d, fun.m)
        list == actualParams.list
    IN IF IsPanic(fun.val) \/ isError(fun.val) THEN fun
       ELSE IF Len(list) = 1 /\ (IsPanic(list[1]) \/ isError(list[1]))
       THEN R(list[1], actualParams.m)
       ELSE RecordCall(fun.val, env, actualParams.m.envs,
                       applyFunction(fun.val, list, d, actualParams.m))

EvalIndexExpression(node, env, d, m) ==
    LET left == Eval(node.Left, env, d, m)
        index == Eval(node.Index, env, d, left.m)
    IN IF IsPanic(left.val) \/ isError(left.val) THEN left
       ELSE IF IsPanic(index.val) \/ isError(index.val) THEN index
       ELSE evalIndexExpresson(left.val, index.val, index.m)

\* mutant: the function captures the root environment
EvalFunctionLiteral_Root(node, env, m) ==
    R(Function(node.FormalParams, node.Body, 1, m.nobj), Bump(m))

\* mutant: the function captures a copy of the current environment
EvalFunctionLiteral_Copy(node, env, m) ==
    R(Function(node.FormalParams, node.Body, Len(m.envs) + 1, m.nobj),
      [Bump(m) EXCEPT !.envs = Append(@, m.envs[env])])

EvalFunctionLiteral(node, env, m) ==
    R(Function(node.FormalParams, node.Body, env, m.nobj), Bump(m))

EvalArrayLiteral(node, env, d, m) ==
    LET elements == evalExpressions(node.Elements, env, d, m)
        list == elements.list
    IN IF Len(list) = 1 /\ (IsPanic(list[1]) \/ isError(list[1]))
       THEN R(list[1], elements.m)
       ELSE NewArray(list, elements.m)

\* Eval for every node but the Program, which the driver steps through
Eval(node, env, d, m0) ==
    LET m == [m0 EXCEPT !.log = Append(@, node)]
        k == node.node
    IN CASE k = "BlockStatement" -> evalBlockStatement(node, env, d, m)
         [] k = "ReturnStatement" -> EvalReturnStatement(node, env, d, m)
         [] k = "LetStatement" -> EvalLetStatement(node, env, d, m)
         [] k = "ExpressionStatement" -> Eval(node.ExpressionValue, env, d, m)
         [] k = "PrefixExpression" -> EvalPrefixExpression(node, env, d, m)
         [] k = "InfixExpression" -> EvalInfixExpression(node, env, d, m)
         [] k = "CallExpression" -> EvalCallExpression(node, env, d, m)
         [] k = "Identifier" -> evalIdentifier(node, env, m)
         [] k = "IndexExpression" -> EvalIndexExpression(node, env, d, m)
         [] k = "IfExpression" -> evalIfExpression(node, env, d, m)
         [] k = "IntegerLiteral" -> NewInteger(node.IntValue, m)
         [] k = "Boolean" -> R(nativeBoolToBooleanObject(node.BoolValue), m)
         [] k = "StringLiteral" -> NewString(node.StrValue, m)
         [] k = "FunctionLiteral" -> EvalFunctionLiteral(node, env, m)
         [] k = "ArrayLiteral" -> EvalArrayLiteral(node, env, d, m)
         [] OTHER -> R(GoNil, m)

\* ---------------------------------------------------------- test inputs
\* An input of testEval is described by a family and its parameters; Source
\* gives the Program the parser builds for it.
Test(family, k, a, b) == [family |-> family, k |-> k, a |-> a, b |-> b]

\* the expression a source writes for the integer n: no negative literals
Lit(n) == IF n < 0 THEN PrefixExpression("-", IntegerLiteral(0 - n)) ELSE IntegerLiteral(n)
Id(name) == Identifier(name)
ES(e) == ExpressionStatement(e)
Let(name, e) == LetStatement(name, e)
Ret(e) == ReturnStatement(e)
Fn(params, stmts) == FunctionLiteral(params, BlockStatement(stmts))
Call(f, args) == CallExpression(f, args)
Infix(l, op, r) == InfixExpression(l, op, r)
Prefix(op, r) == PrefixExpression(op, r)
If(c, stmts) == IfExpression(c, BlockStatement(stmts), NilNode)
IfElse(c, stmts, alts) == IfExpression(c, BlockStatement(stmts), BlockStatement(alts))
True == BooleanLiteral(TRUE)

Lits == (0 - MaxLit)..MaxLit

\* k = 1: let mk = fn(x) { fn(y) { x + y } }; mk(a)(b)
\* k = 2: let x = a; let f = fn() { x }; let g = fn(x) { f() }; g(b)
ClosureSource(t) ==
    IF t.k = 1
    THEN <<Let("mk", Fn(<<"x">>, <<ES(Fn(<<"y">>, <<ES(Infix(Id("x"), "+", Id("y")))>>))>>)),
           ES(Call(Call(Id("mk"), <<Lit(t.a)>>), <<Lit(t.b)>>))>>
    ELSE <<Let("x", Lit(t.a)),
           Let("f", Fn(<<>>, <<ES(Id("x"))>>)),
           Let("g", Fn(<<"x">>, <<ES(Call(Id("f"), <<>>))>>)),
           ES(Call(Id("g"), <<Lit(t.b)>>))>>

\* k = 1: let f = fn() { n }; let n = a; f()
\* k = 2: let n = a; let f = fn() { n }; let n = b; f()
\* k = 3: let f = fn(k) { if (k < 1) { 0 } else { k + f(k - 1) } }; f(a)
\* k = 4: let mk = fn() { let g = fn() { n }; let n = a; g }; mk()()
SharedSource(t) ==
    CASE t.k = 1 -> <<Let("f", Fn(<<>>, <<ES(Id("n"))>>)),
                      Let("n", Lit(t.a)),
                      ES(Call(Id("f"), <<>>))>>
      [] t.k = 2 -> <<Let("n", Lit(t.a)),
                      Let("f", Fn(<<>>, <<ES(Id("n"))>>)),
                      Let("n", Lit(t.b)),
                      ES(Call(Id("f"), <<>>))>>
      [] t.k = 3 -> <<Let("f", Fn(<<"k">>,
                          <<ES(IfElse(Infix(Id("k"), "<", Lit(1)),
                                      <<ES(Lit(0))>>,
                                      <<ES(Infix(Id("k"), "+",
                                                 Call(Id("f"), <<Infix(Id("k"), "-", Lit(1))>>)))>>))>>)),
                      ES(Call(Id("f"), <<Lit(t.a)>>))>>
      [] t.k = 4 -> <<Let("mk", Fn(<<>>, <<Let("g", Fn(<<>>, <<ES(Id("n"))>>)),
                                           Let("n", Lit(t.a)),
                                           ES(Id("g"))>>)),
                      ES(Call(Call(Id("mk"), <<>>), <<>>))>>

\* k = 1: let x = a; let f = fn(y) { let x = b; x + y }; f(1); x
\* k = 2: let x = a; let f = fn(x) { let x = x + 1; x };
\*        let g = fn(x) { f(b); x }; g(x)
\* k = 3: let x = a; let f = fn() { if (true) { let x = b; let z = 1 }; x };
\*        f() + x
\* k = 4: let x = a; let mk = fn() { fn(v) { let x = v; x } };
\*        let h = mk(); h(b); x
ScopeSource(t) ==
    CASE t.k = 1 -> <<Let("x", Lit(t.a)),
                      Let("f", Fn(<<"y">>, <<Let("x", Lit(t.b)),
                                             ES(Infix(Id("x"), "+", Id("y")))>>)),
                      ES(Call(Id("f"), <<Lit(1)>>)),
                      ES(Id("x"))>>
      [] t.k = 2 -> <<Let("x", Lit(t.a)),
                      Let("f", Fn(<<"x">>, <<Let("x", Infix(Id("x"), "+", Lit(1))),
                                             ES(Id("x"))>>)),
                      Let("g", Fn(<<"x">>, <<ES(Call(Id("f"), <<Lit(t.b)>>)),
                                             ES(Id("x"))>>)),
                      ES(Call(Id("g"), <<Id("x")>>))>>
      [] t.k = 3 -> <<Let("x", Lit(t.a)),
                      Let("f", Fn(<<>>, <<ES(If(True, <<Let("x", Lit(t.b)), Let("z", Lit(1))>>)),
                                          ES(Id("x"))>>)),
                      ES(Infix(Call(Id("f"), <<>>), "+", Id("x")))>>
      [] t.k = 4 -> <<Let("x", Lit(t.a)),
                      Let("mk", Fn(<<>>, <<ES(Fn(<<"v">>, <<Let("x", Id("v")), ES(Id("x"))>>))>>)),
                      Let("h", Call(Id("mk"), <<>>)),
                      ES(Call(Id("h"), <<Lit(t.b)>>)),
                      ES(Id("x"))>>

\* the names the identifier tests look up: three built-ins and two others
IdentNames == <<"len", "first", "puts", "foobar", "x">>

\* with n = IdentNames[a]:
\* k = 1: n
\* k = 2: let n = b; n
\* k = 3: let f = fn(n) { n }; f(b)
\* k = 4: let f = fn() { n }; f()
\* k = 5: let n = b; let f = fn() { n }; f()
\* k = 6: let f = fn() { let n = b; 0 }; f(); n
IdentSource(t) ==
    LET n == IdentNames[t.a]
    IN CASE t.k = 1 -> <<ES(Id(n))>>
         [] t.k = 2 -> <<Let(n, Lit(t.b)), ES(Id(n))>>
         [] t.k = 3 -> <<Let("f", Fn(<<n>>, <<ES(Id(n))>>)), ES(Call(Id("f"), <<Lit(t.b)>>))>>
         [] t.k = 4 -> <<Let("f", Fn(<<>>, <<ES(Id(n))>>)), ES(Call(Id("f"), <<>>))>>
         [] t.k = 5 -> <<Let(n, Lit(t.b)), Let("f", Fn(<<>>, <<ES(Id(n))>>)),
                         ES(Call(Id("f"), <<>>))>>
         [] t.k = 6 -> <<Let("f", Fn(<<>>, <<Let(n, Lit(t.b)), ES(Lit(0))>>)),
                         ES(Call(Id("f"), <<>>)), ES(Id(n))>>

\* the erroring sub-expression of an error test
\* a = 1: foobar                      identifier not found: foobar
\* a = 2: -true                       unknown operator: -BOOLEAN
\* a = 3: 5 + true                    type mismatch: INTEGER + BOOLEAN
\* a = 4: fn() { foobar; sib }()      identifier not found: foobar
\* a = 5: if (true) { -true; sib }    unknown operator: -BOOLEAN
\* a = 6: true(1)                     not a function: BOOLEAN
\* a = 7: 1[0]                        index operator not supported: INTEGER
ErrorExpr(a) ==
    CASE a = 1 -> Id("foobar")
      [] a = 2 -> Prefix("-", True)
      [] a = 3 -> Infix(Lit(5), "+", True)
      [] a = 4 -> Call(Fn(<<>>, <<ES(Id("foobar")), ES(Id("sib"))>>), <<>>)
      [] a = 5 -> If(True, <<ES(Prefix("-", True)), ES(Id("sib"))>>)
      [] a = 6 -> Call(True, <<Lit(1)>>)
      [] a = 7 -> IndexExpression(Lit(1), Lit(0))

ErrorMessage(a) ==
    CASE a \in {1, 4} -> "identifier not found: foobar"
      [] a \in {2, 5} -> "unknown operator: -BOOLEAN"
      [] a = 3 -> "type mismatch: INTEGER + BOOLEAN"
      [] a = 6 -> "not a function: BOOLEAN"
      [] a = 7 -> "index operator not supported: INTEGER"

\* the statement that puts the erroring expression e in context k; sib is
\* the sibling that comes after e in evaluation order
ErrorContext(k, e) ==
    LET sib == Id("sib")
    IN CASE k = 1 -> ES(Infix(e, "+", sib))
         [] k = 2 -> ES(Infix(Lit(1), "+", e))
         [] k = 3 -> ES(Prefix("!", e))
         [] k = 4 -> ES(ArrayLiteral(<<e, sib>>))
         [] k = 5 -> ES(ArrayLiteral(<<Lit(1), e, sib>>))
         [] k = 6 -> ES(Call(Fn(<<"p", "q">>, <<ES(sib)>>), <<e, sib>>))
         [] k = 7 -> ES(Call(Fn(<<"p", "q">>, <<ES(sib)>>), <<Lit(1), e>>))
         [] k = 8 -> ES(Call(e, <<sib>>))
         [] k = 9 -> ES(IfElse(e, <<ES(sib)>>, <<ES(sib)>>))
         [] k = 10 -> ES(IndexExpression(e, sib))
         [] k = 11 -> ES(IndexExpression(ArrayLiteral(<<Lit(1)>>), e))
         [] k = 12 -> Let("v", e)
         [] k = 13 -> Ret(e)
         [] k = 14 -> ES(Infix(Infix(Lit(1), "+", Prefix("-", e)), "*", sib))

\* b = 1: S; sib                       at the top level
\* b = 2: if (true) { S; sib }; sib    in a block
\* b = 3: fn() { S; sib }(); sib       in a function body
\* b = 4: fn() { if (true) { S; sib }; sib }() + sib; sib
ErrorSource(t) ==
    LET S == ErrorContext(t.k, ErrorExpr(t.a))
        sib == ES(Id("sib"))
    IN CASE t.b = 1 -> <<S, sib>>
         [] t.b = 2 -> <<ES(If(True, <<S, sib>>)), sib>>
         [] t.b = 3 -> <<ES(Call(Fn(<<>>, <<S, sib>>), <<>>)), sib>>
         [] t.b = 4 -> <<ES(Infix(Call(Fn(<<>>, <<ES(If(True, <<S, sib>>)), sib>>), <<>>),
                                  "+", Id("sib"))), sib>>

\* an if-expression nested k deep whose innermost block executes return v;
\* every block goes on with a statement that must not be evaluated:
\*   if (true) { if (true) { return v; sib } sib }
RECURSIVE NestedReturn(_, _)
NestedReturn(k, v) ==
    IF k = 0 THEN Ret(Lit(v))
    ELSE ES(If(True, <<NestedReturn(k - 1, v), ES(Id("sib"))>>))

\* with N = NestedReturn(k, a):
\* b = 1: N; sib
\* b = 2: let f = fn() { N; sib }; f() + 1
\* b = 3: let g = fn() { N; sib }; let f = fn() { g(); 7 }; f()
\* b = 4: let f = fn(x) { return x; }; f(a); 2
\* b = 5: let f = fn() { let x = if (true) { return a }; 9 }; f()
\* b = 6: let f = fn() { 1 + if (true) { return a }; 9 }; f()
ReturnSource(t) ==
    LET N == NestedReturn(t.k, t.a)
        sib == ES(Id("sib"))
    IN CASE t.b = 1 -> <<N, sib>>
         [] t.b = 2 -> <<Let("f", Fn(<<>>, <<N, sib>>)),
                         ES(Infix(Call(Id("f"), <<>>), "+", Lit(1)))>>
         [] t.b = 3 -> <<Let("g", Fn(<<>>, <<N, sib>>)),
                         Let("f", Fn(<<>>, <<ES(Call(Id("g"), <<>>)), ES(Lit(7))>>)),
                         ES(Call(Id("f"), <<>>))>>
         [] t.b = 4 -> <<Let("f", Fn(<<"x">>, <<Ret(Id("x"))>>)),
                         ES(Call(Id("f"), <<Lit(t.a)>>)),
                         ES(Lit(2))>>
         [] t.b = 5 -> <<Let("f", Fn(<<>>, <<Let("x", If(True, <<Ret(Lit(t.a))>>)),
                                             ES(Lit(9))>>)),
                         ES(Call(Id("f"), <<>>))>>
         [] t.b = 6 -> <<Let("f", Fn(<<>>, <<ES(Infix(Lit(1), "+", If(True, <<Ret(Lit(t.a))>>))),
                                             ES(Lit(9))>>)),
                         ES(Call(Id("f"), <<>>))>>

\* the value the claim about return gives for the program
ReturnExpected(t) ==
    CASE t.b = 2 -> Wrap(t.a + 1)
      [] t.b = 3 -> 7
      [] t.b = 4 -> 2
      [] OTHER -> t.a

MaxNest == 3

\* an if-block's return as an operand
\* k = 1: return if (true) { return a }
\* k = 2: let x = if (true) { return a }; 7
\* k = 3: [if (true) { return a }]
\* k = 4: 1 + if (true) { return a }
\* k = 5: fn(x) { x; 5 }(if (true) { return a })
EscapeSource(t) ==
    LET r == If(True, <<Ret(Lit(t.a))>>)
    IN CASE t.k = 1 -> <<Ret(r)>>
         [] t.k = 2 -> <<Let("x", r), ES(Lit(7))>>
         [] t.k = 3 -> <<ES(ArrayLiteral(<<r>>))>>
         [] t.k = 4 -> <<ES(Infix(Lit(1), "+", r))>>
         [] t.k = 5 -> <<ES(Call(Fn(<<"x">>, <<ES(Id("x")), ES(Lit(5))>>), <<r>>))>>

\* operands without a value, missing arguments, division by zero
\* k = 1: a + if (true) { let x = 1 }
\* k = 2: fn(x) { x }()
\* k = 3: a / b
\* k = 4: if (true) { } + a
\* k = 5: if (true) { let x = 1 }(a)
\* k = 6: [a][if (true) { }]
\* k = 7: -if (true) { }
\* k = 8: !if (true) { let x = 1 }
\* k = 9: let f = fn(x, y) { x }; f(a)
\* k = 10: if (true) { } == a
\* k = 11: true == if (true) { }
OperandSource(t) ==
    LET none == If(True, <<>>)
        bound == If(True, <<Let("x", Lit(1))>>)
    IN CASE t.k = 1 -> <<ES(Infix(Lit(t.a), "+", bound))>>
         [] t.k = 2 -> <<ES(Call(Fn(<<"x">>, <<ES(Id("x"))>>), <<>>))>>
         [] t.k = 3 -> <<ES(Infix(Lit(t.a), "/", Lit(t.b)))>>
         [] t.k = 4 -> <<ES(Infix(none, "+", Lit(t.a)))>>
         [] t.k = 5 -> <<ES(Call(bound, <<Lit(t.a)>>))>>
         [] t.k = 6 -> <<ES(IndexExpression(ArrayLiteral(<<Lit(t.a)>>), none))>>
         [] t.k = 7 -> <<ES(Prefix("-", none))>>
         [] t.k = 8 -> <<ES(Prefix("!", bound))>>
         [] t.k = 9 -> <<Let("f", Fn(<<"x", "y">>, <<ES(Id("x"))>>)),
                         ES(Call(Id("f"), <<Lit(t.a)>>))>>
         [] t.k = 10 -> <<ES(Infix(none, "==", Lit(t.a)))>>
         [] t.k = 11 -> <<ES(Infix(True, "==", none))>>

\* operands of every runtime type: nine integers, the ends of the range among
\* them, then true, false, three strings, two arrays, a function, a builtin
\* and the Null of an if without else whose condition is false
IntOperands == <<MinInt, MinInt + 1, 0 - 2, 0 - 1, 0, 1, 2, MaxInt - 1, MaxInt>>

StringOperands == <<"", "a", "b">>

Operands ==
    [i \in 1..9 |-> IF IntOperands[i] = MinInt
                    THEN Infix(Lit(0 - MaxInt), "-", Lit(1))
                    ELSE Lit(IntOperands[i])]
    \o <<True, BooleanLiteral(FALSE)>>
    \o [i \in 1..3 |-> StringLiteral(StringOperands[i])]
    \o <<ArrayLiteral(<<>>), ArrayLiteral(<<Lit(1)>>), Fn(<<"x">>, <<ES(Id("x"))>>),
         Id("len"), If(BooleanLiteral(FALSE), <<ES(Lit(1))>>)>>

OperandType(i) ==
    CASE i \in 1..9 -> "INTEGER"
      [] i \in 10..11 -> "BOOLEAN"
      [] i \in 12..14 -> "STRING"
      [] i \in 15..16 -> "ARRAY"
      [] i = 17 -> "FUNCTION"
      [] i = 18 -> "BUILTIN"
      [] i = 19 -> "NULL"

InfixOps == <<"+", "-", "*", "/", "<", ">", "==", "!=">>

\* expressions that yield a Boolean or Null: literals, comparisons, !, an if
\* that takes no branch, an index out of range; SingleValues says which
SingleExprs ==
    <<True, BooleanLiteral(FALSE),
      Infix(Lit(1), "<", Lit(2)), Infix(Lit(1), ">", Lit(2)),
      Infix(Lit(1), "==", Lit(1)), Infix(Lit(1), "!=", Lit(1)),
      Prefix("!", True), Prefix("!", BooleanLiteral(FALSE)),
      Prefix("!", Lit(5)), Prefix("!", Prefix("!", Lit(5))),
      Infix(True, "==", True), Infix(True, "!=", True),
      If(BooleanLiteral(FALSE), <<ES(Lit(1))>>),
      If(Infix(Lit(1), ">", Lit(2)), <<ES(Lit(1))>>),
      IndexExpression(ArrayLiteral(<<>>), Lit(0)),
      IndexExpression(ArrayLiteral(<<Lit(1)>>), Lit(0 - 1)),
      Prefix("!", If(BooleanLiteral(FALSE), <<ES(Lit(1))>>))>>

SingleValues ==
    <<"true", "false", "true", "false", "true", "false", "false", "true",
      "false", "true", "true", "false", "null", "null", "null", "null", "true">>

\* k = 1..8: A op B, op = InfixOps[k], A = Operands[a], B = Operands[b]
\* k = 9: let v = A; v == v          k = 10: let v = A; v != v
\* k = 11: -A        k = 12: !A      k = 13: !!A
\* k = 14: let f = fn() { 1 }; let g = fn() { 2 }; if (A) { f() } else { g() }
\* k = 15: let f = fn() { 1 }; if (A) { f() }
\* k = 16: [10, 20, ...][I], an array of a elements, I = IntOperands[b]
\* k = 17: S == T, S = SingleExprs[a], T = SingleExprs[b]     k = 18: S != T
\* k = 19: let v = S; [v, S]
ValueSource(t) ==
    LET f == Let("f", Fn(<<>>, <<ES(Lit(1))>>))
        g == Let("g", Fn(<<>>, <<ES(Lit(2))>>))
    IN CASE t.k \in 1..8 -> <<ES(Infix(Operands[t.a], InfixOps[t.k], Operands[t.b]))>>
         [] t.k = 9 -> <<Let("v", Operands[t.a]), ES(Infix(Id("v"), "==", Id("v")))>>
         [] t.k = 10 -> <<Let("v", Operands[t.a]), ES(Infix(Id("v"), "!=", Id("v")))>>
         [] t.k = 11 -> <<ES(Prefix("-", Operands[t.a]))>>
         [] t.k = 12 -> <<ES(Prefix("!", Operands[t.a]))>>
         [] t.k = 13 -> <<ES(Prefix("!", Prefix("!", Operands[t.a])))>>
         [] t.k = 14 -> <<f, g, ES(IfElse(Operands[t.a], <<ES(Call(Id("f"), <<>>))>>,
                                          <<ES(Call(Id("g"), <<>>))>>))>>
         [] t.k = 15 -> <<f, ES(If(Operands[t.a], <<ES(Call(Id("f"), <<>>))>>))>>
         [] t.k = 16 -> <<ES(IndexExpression(ArrayLiteral([j \in 1..t.a |-> Lit(10 * j)]),
                                             Operands[t.b]))>>
         [] t.k = 17 -> <<ES(Infix(SingleExprs[t.a], "==", SingleExprs[t.b]))>>
         [] t.k = 18 -> <<ES(Infix(SingleExprs[t.a], "!=", SingleExprs[t.b]))>>
         [] t.k = 19 -> <<Let("v", SingleExprs[t.a]),
                          ES(ArrayLiteral(<<Id("v"), SingleExprs[t.a]>>))>>

\* right-hand sides of `let x = ...`: what each yields (fails: an error), and
\* the names its own evaluation binds in the current environment, in the
\* let statements of an if-block
LetCases ==
    LET none == [n \in {} |-> 0]
        one(name, v) == [n \in {name} |-> v]
        bad == Prefix("-", True)
        case(rhs, yields, fails, binds) ==
            [rhs |-> rhs, yields |-> yields, fails |-> fails, binds |-> binds]
    IN <<case(Lit(5), 5, FALSE, none),
         case(bad, 0, TRUE, none),
         case(Infix(Id("y"), "+", Lit(1)), 8, FALSE, none),
         case(Id("z"), 0, TRUE, none),
         case(If(True, <<Let("w", Lit(1)), ES(Lit(2))>>), 2, FALSE, one("w", 1)),
         case(If(True, <<Let("w", Lit(1)), ES(bad)>>), 0, TRUE, one("w", 1)),
         case(If(True, <<Let("y", Lit(9)), ES(bad)>>), 0, TRUE, one("y", 9)),
         case(If(True, <<Let("x", Lit(3)), ES(bad)>>), 0, TRUE, one("x", 3)),
         case(Call(Fn(<<>>, <<Let("w", Lit(1)), ES(Lit(2))>>), <<>>), 2, FALSE, none),
         case(Call(Fn(<<>>, <<Let("w", Lit(1)), ES(bad)>>), <<>>), 0, TRUE, none)>>

\* k = 1: let y = 7; let x = RHS           k = 2: let y = 7; let x = 1; let x = RHS
\* k = 3: let y = 7; let x = 1; let f = fn() { let x = RHS }; f()
\* RHS = LetCases[a].rhs
LetSource(t) ==
    LET y == Let("y", Lit(7))
        x == Let("x", Lit(1))
        let == Let("x", LetCases[t.a].rhs)
    IN CASE t.k = 1 -> <<y, let>>
         [] t.k = 2 -> <<y, x, let>>
         [] t.k = 3 -> <<y, x, Let("f", Fn(<<>>, <<let>>)), ES(Call(Id("f"), <<>>))>>

\* k = 1: let f = fn(p1, .., pa) { [p1, .., pa] }; f(10, .., 10 * b)
\* k = 2: let g = fn(v) { v }; let f = fn(p1, .., pa) { [p1, .., pa] };
\*        f(g(10), .., g(10 * b))
\* k = 3: let adder = fn(x) { fn(y) { x + y } }; let p = adder(a); let r = p(10);
\*        let q = adder(b); [r, p(10), q(10)]
\* k = 4: let x = a; if (x < 2) { let x = b; let w = 1 } else { let u = b };
\*        if (false) { let n = 1 }; x
\* k = 5: let f = fn(c) { if (c) { let v = a } else { let v = b; let u = v }; v };
\*        [f(true), f(false)]
CallSource(t) ==
    LET names == <<"p1", "p2", "p3">>
        params == [i \in 1..t.a |-> names[i]]
        f == Let("f", Fn(params, <<ES(ArrayLiteral([i \in 1..t.a |-> Id(names[i])]))>>))
        g == Let("g", Fn(<<"v">>, <<ES(Id("v"))>>))
    IN CASE t.k = 1 -> <<f, ES(Call(Id("f"), [i \in 1..t.b |-> Lit(10 * i)]))>>
         [] t.k = 2 -> <<g, f, ES(Call(Id("f"), [i \in 1..t.b |->
                                                    Call(Id("g"), <<Lit(10 * i)>>)]))>>
         [] t.k = 3 -> <<Let("adder", Fn(<<"x">>, <<ES(Fn(<<"y">>,
                                              <<ES(Infix(Id("x"), "+", Id("y")))>>))>>)),
                         Let("p", Call(Id("adder"), <<Lit(t.a)>>)),
                         Let("r", Call(Id("p"), <<Lit(10)>>)),
                         Let("q", Call(Id("adder"), <<Lit(t.b)>>)),
                         ES(ArrayLiteral(<<Id("r"), Call(Id("p"), <<Lit(10)>>),
                                           Call(Id("q"), <<Lit(10)>>)>>))>>
         [] t.k = 4 -> <<Let("x", Lit(t.a)),
                         ES(IfElse(Infix(Id("x"), "<", Lit(2)),
                                   <<Let("x", Lit(t.b)), Let("w", Lit(1))>>,
                                   <<Let("u", Lit(t.b))>>)),
                         ES(If(BooleanLiteral(FALSE), <<Let("n", Lit(1))>>)),
                         ES(Id("x"))>>
         [] t.k = 5 -> <<Let("f", Fn(<<"c">>,
                             <<ES(IfElse(Id("c"), <<Let("v", Lit(t.a))>>,
                                         <<Let("v", Lit(t.b)), Let("u", Id("v"))>>)),
                               ES(Id("v"))>>)),
                         ES(ArrayLiteral(<<Call(Id("f"), <<True>>),
                                           Call(Id("f"), <<BooleanLiteral(FALSE)>>)>>))>>

Tests ==
    {Test("closure", k, a, b) : k \in 1..2, a \in Lits \cup {MaxInt}, b \in Lits \cup {MaxInt}}
    \cup {Test("shared", k, a, b) : k \in {1, 3, 4}, a \in Lits, b \in {0}}
    \cup {Test("shared", 2, a, b) : a \in Lits, b \in Lits}
    \cup {Test("scope", k, a, b) : k \in 1..4, a \in Lits, b \in Lits}
    \cup {Test("ident", k, a, b) : k \in 1..6, a \in 1..Len(IdentNames), b \in Lits}
    \cup {Test("error", k, a, b) : k \in 1..14, a \in 1..7, b \in 1..4}
    \cup {Test("return", k, a, b) : k \in 0..MaxNest, a \in Lits, b \in 1..3}
    \cup {Test("return", 1, a, b) : a \in Lits, b \in 4..6}
    \cup {Test("escape", k, a, 0) : k \in 1..5, a \in Lits}
    \cup {Test("operand", k, a, 0) : k \in 1..11, a \in Lits}
    \cup {Test("operand", 3, a, b) : a \in Lits, b \in Lits}
    \cup {Test("value", k, a, b) : k \in 1..8, a \in 1..Len(Operands), b \in 1..Len(Operands)}
    \cup {Test("value", k, a, 0) : k \in 9..15, a \in 1..Len(Operands)}
    \cup {Test("value", 16, a, b) : a \in 0..3, b \in 1..9}
    \cup {Test("value", k, a, b) : k \in 17..18, a \in 1..Len(SingleExprs),
                                    b \in 1..Len(SingleExprs)}
    \cup {Test("value", 19, a, 0) : a \in 1..Len(SingleExprs)}
    \cup {Test("let", k, a, 0) : k \in 1..3, a \in 1..Len(LetCases)}
    \cup {Test("call", k, a, b) : k \in 1..5, a \in 0..2, b \in 0..3}

Source(t) ==
    Program(CASE t.family = "closure" -> ClosureSource(t)
              [] t.family = "shared" -> SharedSource(t)
              [] t.family = "scope" -> ScopeSource(t)
              [] t.family = "ident" -> IdentSource(t)
              [] t.family = "error" -> ErrorSource(t)
              [] t.family = "return" -> ReturnSource(t)
              [] t.family = "escape" -> EscapeSource(t)
              [] t.family = "operand" -> OperandSource(t)
              [] t.family = "value" -> ValueSource(t)
              [] t.family = "let" -> LetSource(t)
              [] t.family = "call" -> CallSource(t))

\* ----------------------------------------------------------------- tokens
Token(type, literal) == [Type |-> type, Literal |-> literal]

\* the token kinds (a field that is a reserved word carries a trailing _)
token ==
    [ILLEGAL |-> "ILLEGA", EOF |-> "EOF", IDENT |-> "IDENT",
     INT |-> "INT", ASSIGN |-> "=", PLUS |-> "+", MINUS |-> "-",
     BANG |-> "!", ASTERISK |-> "*", SLASH |-> "/", LT |-> "<",
     GT |-> ">", EQ |-> "==", NOT_EQ |-> "!=", COMMA |-> ",",
     SEMICOLON |-> ";", LPAREN |-> "(", RPAREN |-> ")", LBRACE |-> "{",
     RBRACE |-> "}", STRING |-> "STRING", LBRACKET |-> "[",
     RBRACKET |-> "]", FUNCTION |-> "FUNCTION", LET_ |-> "LET",
     TRUE_ |-> "TRUE", FALSE_ |-> "FALSE", IF_ |-> "IF", ELSE_ |-> "ELSE",
     RETURN |-> "RETURN"]

\* the scanner, as the parser sees it: a cursor over the tokens of the
\* input, answering EOF again and again once they are used up
lexer_New(input) == [input |-> input, position |-> 0]

NextToken(l) ==
    IF l.position < Len(l.input)
    THEN [tok |-> l.input[l.position + 1], l |-> [l EXCEPT !.position = @ + 1]]
    ELSE [tok |-> Token(token.EOF, ""), l |-> l]

\* ----------------------------------------------------------------- parser
LOWEST == 1
EQUALS == 2
LESSGREATER == 3
SUM == 4
PRODUCT == 5
PREFIX == 6
CALL == 7
INDEX == 8

precedences ==
    [t \in {token.EQ, token.NOT_EQ, token.LT, token.GT, token.PLUS, token.MINUS,
            token.SLASH, token.ASTERISK, token.LPAREN, token.LBRACKET} |->
        CASE t \in {token.EQ, token.NOT_EQ} -> EQUALS
          [] t \in {token.LT, token.GT} -> LESSGREATER
          [] t \in {token.PLUS, token.MINUS} -> SUM
          [] t \in {token.SLASH, token.ASTERISK} -> PRODUCT
          [] t = token.LPAREN -> CALL
          [] t = token.LBRACKET -> INDEX]

\* the token kinds New registers a prefix / an infix parse function for
prefixParseFns ==
    {token.IDENT, token.INT, token.TRUE_, token.FALSE_, token.BANG, token.MINUS,
     token.LPAREN, token.IF_, token.FUNCTION, token.STRING, token.LBRACKET}

infixParseFns ==
    {token.PLUS, token.MINUS, token.SLASH, token.ASTERISK, token.EQ,
     token.NOT_EQ, token.LT, token.GT, token.LPAREN, token.LBRACKET}

nextToken(p) ==
    LET n == NextToken(p.l)
    IN [p EXCEPT !.curToken = p.peekToken, !.peekToken = n.tok, !.l = n.l]

\* New: the parser over a scanner, after its two calls of nextToken
New(l) ==
    nextToken(nextToken([l |-> l,
                         curToken |-> Token("", ""),
                         peekToken |-> Token("", ""),
                         errors |-> <<>>]))

curTokenIs(p, t) == p.curToken.Type = t
peekTokenIs(p, t) == p.peekToken.Type = t

peekError(p, t) ==
    [p EXCEPT !.errors =
        Append(@, "expect next token to be " \o t \o ". got "
                  \o p.peekToken.Type \o " instead")]

\* a variant that moves on to the next token also when the peek token is another
expectPeek_Consume(p, t) ==
    IF peekTokenIs(p, t)
    THEN [ok |-> TRUE, p |-> nextToken(p)]
    ELSE [ok |-> FALSE, p |-> nextToken(peekError(p, t))]

expectPeek(p, t) ==
    IF peekTokenIs(p, t)
    THEN [ok |-> TRUE, p |-> nextToken(p)]
    ELSE [ok |-> FALSE, p |-> peekError(p, t)]

peekPrecedence(p) ==
    IF p.peekToken.Type \in DOMAIN precedences
    THEN precedences[p.peekToken.Type]
    ELSE LOWEST

curPrecedence(p) ==
    IF p.curToken.Type \in DOMAIN precedences
    THEN precedences[p.curToken.Type]
    ELSE LOWEST

\* a variant that records nothing
noPrefixParseFnError_Silent(p, t) == p

noPrefixParseFnError(p, t) ==
    [p EXCEPT !.errors = Append(@, "no prefix parse function for " \o t \o " found")]

\* the numeral of n in the base, most significant digit first
RECURSIVE Numeral(_, _)
Numeral(n, base) ==
    LET digit == <<"0", "1", "2", "3", "4", "5", "6", "7", "8", "9">>[(n % base) + 1]
    IN IF n < base THEN digit ELSE Numeral(n \div base, base) \o digit

\* the characters of the decimal numeral of n
RECURSIVE NumeralChars(_)
NumeralChars(n) ==
    IF n < 10 THEN <<Numeral(n, 10)>>
    ELSE NumeralChars(n \div 10) \o <<Numeral(n % 10, 10)>>

\* strconv.ParseInt(s, 0, 64) on a literal made of digits: decimal, or octal
\* when it has a leading 0; an error when it is neither or out of range
DecimalNumerals == [n \in 0..MaxInt |-> Numeral(n, 10)]
OctalNumerals == [n \in 0..MaxInt |-> "0" \o Numeral(n, 8)]

strconv_ParseInt(s) ==
    IF \E n \in 0..MaxInt : s = DecimalNumerals[n]
    THEN [ival |-> CHOOSE n \in 0..MaxInt : s = DecimalNumerals[n], err |-> FALSE]
    ELSE IF \E n \in 0..MaxInt : s = OctalNumerals[n]
    THEN [ival |-> CHOOSE n \in 0..MaxInt : s = OctalNumerals[n], err |-> FALSE]
    ELSE [ival |-> 0, err |-> TRUE]

\* a *ast.LetStatement that is nil, held in an ast.Statement: the interface
\* value is not nil
NilLetStatement == [node |-> "(*LetStatement)(nil)"]

\* parseExpression and parseBlockStatement call each other through the
\* functions between them

RECURSIVE parseExpression(_, _)
RECURSIVE parseBlockStatement(_)

parseIdentifier(p) == [exp |-> Identifier(p.curToken.Literal), p |-> p]

parseIntegerLiteral(p) ==
    LET v == strconv_ParseInt(p.curToken.Literal)
    IN IF v.err
       THEN [exp |-> NilNode,
             p |-> [p EXCEPT !.errors =
                       Append(@, "could not parse \"" \o p.curToken.Literal
                                 \o "\" as integer")]]
       ELSE [exp |-> IntegerLiteral(v.ival), p |-> p]

parseBoolean(p) == [exp |-> BooleanLiteral(curTokenIs(p, token.TRUE_)), p |-> p]

parseStringLiteral(p) == [exp |-> StringLiteral(p.curToken.Literal), p |-> p]

\* for p.peekTokenIs(token.SEMICOLON) { p.nextToken() }
RECURSIVE skipSemicolons(_)
skipSemicolons(p) ==
    IF peekTokenIs(p, token.SEMICOLON) THEN skipSemicolons(nextToken(p)) ELSE p

\* In the operators below a parse result is handed to a local operator that
\* holds the statements following the call in the source.

\* as parsePrefixExpression, but the operand is parsed at the lowest level
parsePrefixExpression_Lowest(p) ==
    LET prefixRightLowest(r) ==
            [exp |-> PrefixExpression(p.curToken.Literal, r.exp), p |-> r.p]
    IN prefixRightLowest(parseExpression(nextToken(p), LOWEST))

parsePrefixExpression(p) ==
    LET prefixRight(r) ==
            [exp |-> PrefixExpression(p.curToken.Literal, r.exp), p |-> r.p]
    IN prefixRight(parseExpression(nextToken(p), PREFIX))

\* for p.peekTokenIs(token.COMMA) { ... } of parseExpressionList
RECURSIVE parseExpressionListLoop(_, _)
parseExpressionListLoop(list, p) ==
    IF peekTokenIs(p, token.COMMA)
    THEN LET listNext(r) == parseExpressionListLoop(Append(list, r.exp), r.p)
         IN listNext(parseExpression(nextToken(nextToken(p)), LOWEST))
    ELSE [exps |-> list, p |-> p]

\* a nil slice is the empty sequence: len and range do not tell them apart
parseExpressionList(p, end) ==
    IF peekTokenIs(p, end)
    THEN [exps |-> <<>>, p |-> nextToken(p)]
    ELSE LET listClosed(list, e) ==
                 IF ~e.ok THEN [exps |-> <<>>, p |-> e.p]
                 ELSE [exps |-> list, p |-> e.p]
             listEnd(rest) == listClosed(rest.exps, expectPeek(rest.p, end))
             listRest(first) ==
                 listEnd(parseExpressionListLoop(<<first.exp>>, first.p))
         IN listRest(parseExpression(nextToken(p), LOWEST))

parseArrayLiteral(p) ==
    LET arrayOf(l) == [exp |-> ArrayLiteral(l.exps), p |-> l.p]
    IN arrayOf(parseExpressionList(p, token.RBRACKET))

parseGroupedExpression(p) ==
    LET groupClosed(exp, e) ==
            IF ~e.ok THEN [exp |-> NilNode, p |-> e.p]
            ELSE [exp |-> exp, p |-> e.p]
        groupEnd(r) == groupClosed(r.exp, expectPeek(r.p, token.RPAREN))
    IN groupEnd(parseExpression(nextToken(p), LOWEST))

\* for p.peekTokenIs(token.COMMA) { ... } of parseFormalParams
RECURSIVE parseFormalParamsLoop(_, _)
parseFormalParamsLoop(identifiers, p) ==
    IF peekTokenIs(p, token.COMMA)
    THEN LET paramNext(q) ==
                 parseFormalParamsLoop(Append(identifiers, q.curToken.Literal), q)
         IN paramNext(nextToken(nextToken(p)))
    ELSE [params |-> identifiers, p |-> p]

parseFormalParams(p) ==
    IF peekTokenIs(p, token.RPAREN)
    THEN [params |-> <<>>, p |-> nextToken(p)]
    ELSE LET paramsClosed(identifiers, e) ==
                 IF ~e.ok THEN [params |-> <<>>, p |-> e.p]
                 ELSE [params |-> identifiers, p |-> e.p]
             paramsEnd(rest) ==
                 paramsClosed(rest.params, expectPeek(rest.p, token.RPAREN))
             paramsRest(q) ==
                 paramsEnd(parseFormalParamsLoop(<<q.curToken.Literal>>, q))
         IN paramsRest(nextToken(p))

parseFunctionLiteral(p) ==
    LET fnBody(params, b) ==
            [exp |-> FunctionLiteral(params, b.block), p |-> b.p]
        fnBrace(params, e2) ==
            IF ~e2.ok THEN [exp |-> NilNode, p |-> e2.p]
            ELSE fnBody(params, parseBlockStatement(e2.p))
        fnParams(f) == fnBrace(f.params, expectPeek(f.p, token.LBRACE))
        fnParen(e1) ==
            IF ~e1.ok THEN [exp |-> NilNode, p |-> e1.p]
            ELSE fnParams(parseFormalParams(e1.p))
    IN fnParen(expectPeek(p, token.LPAREN))

parseIfExpression(p) ==
    LET ifAlternative(condition, consequence, alt) ==
            [exp |-> IfExpression(condition, consequence, alt.block), p |-> alt.p]
        ifElseBrace(condition, consequence, e4) ==
            IF ~e4.ok THEN [exp |-> NilNode, p |-> e4.p]
            ELSE ifAlternative(condition, consequence, parseBlockStatement(e4.p))
        ifConsequence(condition, cons) ==
            IF ~peekTokenIs(cons.p, token.ELSE_)
            THEN [exp |-> IfExpression(condition, cons.block, NilNode), p |-> cons.p]
            ELSE ifElseBrace(condition, cons.block,
                             expectPeek(nextToken(cons.p), token.LBRACE))
        ifBrace(condition, e3) ==
            IF ~e3.ok THEN [exp |-> NilNode, p |-> e3.p]
            ELSE ifConsequence(condition, parseBlockStatement(e3.p))
        ifRparen(condition, e2) ==
            IF ~e2.ok THEN [exp |-> NilNode, p |-> e2.p]
            ELSE ifBrace(condition, expectPeek(e2.p, token.LBRACE))
        ifCondition(c) == ifRparen(c.exp, expectPeek(c.p, token.RPAREN))
        ifLparen(e1) ==
            IF ~e1.ok THEN [exp |-> NilNode, p |-> e1.p]
            ELSE ifCondition(parseExpression(nextToken(e1.p), LOWEST))
    IN ifLparen(expectPeek(p, token.LPAREN))

\* p.prefixParseFns[t]()
prefixParseFn(t, p) ==
    CASE t = token.IDENT -> parseIdentifier(p)
      [] t = token.INT -> parseIntegerLiteral(p)
      [] t \in {token.TRUE_, token.FALSE_} -> parseBoolean(p)
      [] t \in {token.BANG, token.MINUS} -> parsePrefixExpression(p)
      [] t = token.LPAREN -> parseGroupedExpression(p)
      [] t = token.IF_ -> parseIfExpression(p)
      [] t = token.FUNCTION -> parseFunctionLiteral(p)
      [] t = token.STRING -> parseStringLiteral(p)
      [] t = token.LBRACKET -> parseArrayLiteral(p)

\* as parseInfixExpression, but the right operand is parsed one level lower
parseInfixExpression_RightAssoc(left, p) ==
    LET precedure == curPrecedence(p)
        infixRightLower(r) ==
            [exp |-> InfixExpression(left, p.curToken.Literal, r.exp), p |-> r.p]
    IN infixRightLower(parseExpression(nextToken(p), precedure - 1))

parseInfixExpression(left, p) ==
    LET precedure == curPrecedence(p)
        infixRight(r) ==
            [exp |-> InfixExpression(left, p.curToken.Literal, r.exp), p |-> r.p]
    IN infixRight(parseExpression(nextToken(p), precedure))

parseCallExpression(fn, p) ==
    LET callOf(l) == [exp |-> CallExpression(fn, l.exps), p |-> l.p]
    IN callOf(parseExpressionList(p, token.RPAREN))

parseIndexExpression(left, p) ==
    LET indexClosed(index, e) ==
            IF ~e.ok THEN [exp |-> NilNode, p |-> e.p]
            ELSE [exp |-> IndexExpression(left, index), p |-> e.p]
        indexEnd(r) == indexClosed(r.exp, expectPeek(r.p, token.RBRACKET))
    IN indexEnd(parseExpression(nextToken(p), LOWEST))

\* p.infixParseFns[t](left)
infixParseFn(t, left, p) ==
    CASE t = token.LPAREN -> parseCallExpression(left, p)
      [] t = token.LBRACKET -> parseIndexExpression(left, p)
      [] OTHER -> parseInfixExpression(left, p)

\* the loop of parseExpression
RECURSIVE parseExpressionLoop(_, _, _)
parseExpressionLoop(leftExp, p, precedence) ==
    IF ~peekTokenIs(p, token.SEMICOLON) /\ precedence < peekPrecedence(p)
    THEN IF p.peekToken.Type \notin infixParseFns
         THEN [exp |-> leftExp, p |-> p]
         ELSE LET infixNext(r) == parseExpressionLoop(r.exp, r.p, precedence)
              IN infixNext(infixParseFn(p.peekToken.Type, leftExp, nextToken(p)))
    ELSE [exp |-> leftExp, p |-> p]

parseExpression(p, precedence) ==
    IF p.curToken.Type \notin prefixParseFns
    THEN [exp |-> NilNode, p |-> noPrefixParseFnError(p, p.curToken.Type)]
    ELSE LET infixLoop(left) == parseExpressionLoop(left.exp, left.p, precedence)
         IN infixLoop(prefixParseFn(p.curToken.Type, p))

parseLetStatement(p) ==
    LET letValue(name, r) ==
            [stmt |-> LetStatement(name, r.exp), p |-> skipSemicolons(r.p)]
        letAssign(name, e2) ==
            IF ~e2.ok THEN [stmt |-> NilLetStatement, p |-> e2.p]
            ELSE letValue(name, parseExpression(nextToken(e2.p), LOWEST))
        letName(e1) ==
            IF ~e1.ok THEN [stmt |-> NilLetStatement, p |-> e1.p]
            ELSE letAssign(e1.p.curToken.Literal, expectPeek(e1.p, token.ASSIGN))
    IN letName(expectPeek(p, token.IDENT))

parseReturnStatement(p) ==
    LET returnValue(r) ==
            [stmt |-> ReturnStatement(r.exp), p |-> skipSemicolons(r.p)]
    IN returnValue(parseExpression(nextToken(p), LOWEST))

parseExpressionStatement(p) ==
    LET statementOf(r) ==
            [stmt |-> ExpressionStatement(r.exp),
             p |-> IF peekTokenIs(r.p, token.SEMICOLON) THEN nextToken(r.p) ELSE r.p]
    IN statementOf(parseExpression(p, LOWEST))

parseStatement(p) ==
    CASE p.curToken.Type = token.LET_ -> parseLetStatement(p)
      [] p.curToken.Type = token.RETURN -> parseReturnStatement(p)
      [] OTHER -> parseExpressionStatement(p)

RECURSIVE parseBlockStatementLoop(_, _)
parseBlockStatementLoop(stmts, p) ==
    IF ~curTokenIs(p, token.RBRACE) /\ ~curTokenIs(p, token.EOF)
    THEN LET blockNext(s) ==
                 parseBlockStatementLoop(
                     IF s.stmt # NilNode THEN Append(stmts, s.stmt) ELSE stmts,
                     nextToken(s.p))
         IN blockNext(parseStatement(p))
    ELSE [block |-> BlockStatement(stmts), p |-> p]

parseBlockStatement(p) == parseBlockStatementLoop(<<>>, nextToken(p))

\* ------------------------------------------------------------ string form
\* A Go string is the sequence of its characters.

\* the characters of a name or lexeme of the inputs
Chars(lexeme) ==
    CASE lexeme = "add" -> <<"a", "d", "d">>
      [] lexeme = "==" -> <<"=", "=">>
      [] lexeme = "!=" -> <<"!", "=">>
      [] OTHER -> <<lexeme>>

\* strings.Join
RECURSIVE Join(_, _)
Join(strings, sep) ==
    IF strings = <<>> THEN <<>>
    ELSE IF Len(strings) = 1 THEN strings[1]
    ELSE strings[1] \o sep \o Join(Tail(strings), sep)

\* Node_String() of every node; Token.RawString is the lexeme the node began
\* with, for an integer literal its decimal numeral
RECURSIVE Node_String(_)
Node_String(node) ==
    LET k == node.node
        all(nodes) == [i \in 1..Len(nodes) |-> Node_String(nodes[i])]
        names(params) == [i \in 1..Len(params) |-> Chars(params[i])]
        opt(e) == IF e # NilNode THEN Node_String(e) ELSE <<>>
    IN CASE k \in {"Program", "BlockStatement"} -> Join(all(node.Statements), <<>>)
         [] k = "LetStatement" ->
                <<"l", "e", "t", " ">> \o Chars(node.Name) \o <<" ", "=", " ">>
                \o opt(node.Value) \o <<";">>
         [] k = "ReturnStatement" ->
                <<"r", "e", "t", "u", "r", "n", " ">> \o opt(node.ReturnValue) \o <<";">>
         [] k = "ExpressionStatement" -> opt(node.ExpressionValue)
         [] k = "Identifier" -> Chars(node.Name)
         [] k = "IntegerLiteral" -> NumeralChars(node.IntValue)
         [] k = "Boolean" -> IF node.BoolValue THEN <<"t", "r", "u", "e">>
                             ELSE <<"f", "a", "l", "s", "e">>
         [] k = "StringLiteral" -> Chars(node.StrValue)
         [] k = "ArrayLiteral" -> <<"[">> \o Join(all(node.Elements), <<",">>) \o <<"]">>
         [] k = "FunctionLiteral" ->
                <<"f", "n", "(">> \o Join(names(node.FormalParams), <<",", " ">>)
                \o <<")", " ">> \o Node_String(node.Body)
         [] k = "PrefixExpression" ->
                <<"(">> \o Chars(node.Operator) \o Node_String(node.Right) \o <<")">>
         [] k = "InfixExpression" ->
                <<"(">> \o Node_String(node.Left) \o Chars(node.Operator)
                \o Node_String(node.Right) \o <<")">>
         [] k = "CallExpression" ->
                Node_String(node.CallableName) \o <<"(">>
                \o Join(all(node.ActualParams), <<",">>) \o <<")">>
         [] k = "IndexExpression" ->
                <<"(">> \o Node_String(node.Left) \o <<"[">> \o Node_String(node.Index)
                \o <<"]", ")">>
         [] k = "IfExpression" ->
                <<"i", "f">> \o Node_String(node.Condition) \o <<" ">>
                \o Node_String(node.Consequence)
                \o (IF node.Alternative # NilNode
                    THEN <<"e", "l", "s", "e", " ">> \o Node_String(node.Alternative)
                    ELSE <<>>)

\* ---------------------------------------------------------------- scanner
keywords ==
    [true |-> token.TRUE_, false |-> token.FALSE_, let |-> token.LET_,
     return |-> token.RETURN, fn |-> token.FUNCTION, if |-> token.IF_,
     else |-> token.ELSE_]

LookupIdent(ident) ==
    IF ident \in DOMAIN keywords THEN keywords[ident] ELSE token.IDENT

\* The scanner over the characters of a source: white space is skipped, a
\* letter begins a maximal run of letters, digits and underscores, a digit
\* a maximal run of digits, == and != are recognised by peeking, any other
\* character is a token of its own.  word is the run read so far and kind
\* its token type ("" between tokens).
RECURSIVE Scan(_, _, _, _)
Scan(input, i, word, kind) ==
    LET letters == {"a", "b", "c", "d", "e", "f", "g", "h", "i", "j", "k", "l", "m",
                    "n", "o", "p", "q", "r", "s", "t", "u", "v", "w", "x", "y", "z",
                    "_"}
        digits == {"0", "1", "2", "3", "4", "5", "6", "7", "8", "9"}
        symbols == {token.ASSIGN, token.PLUS, token.MINUS, token.BANG,
                    token.ASTERISK, token.SLASH, token.LT, token.GT, token.COMMA,
                    token.SEMICOLON, token.LPAREN, token.RPAREN, token.LBRACE,
                    token.RBRACE, token.LBRACKET, token.RBRACKET}
        ch == IF i <= Len(input) THEN input[i] ELSE ""
        next == IF i < Len(input) THEN input[i + 1] ELSE ""
        done == IF kind = token.IDENT THEN <<Token(LookupIdent(word), word)>>
                ELSE <<Token(kind, word)>>
    IN IF kind = token.IDENT /\ ch \in letters \cup digits
       THEN Scan(input, i + 1, word \o ch, kind)
       ELSE IF kind = token.INT /\ ch \in digits
       THEN Scan(input, i + 1, word \o ch, kind)
       ELSE IF kind # "" THEN done \o Scan(input, i, "", "")
       ELSE IF i > Len(input) THEN <<>>
       ELSE IF ch = " " THEN Scan(input, i + 1, "", "")
       ELSE IF ch \in letters THEN Scan(input, i + 1, ch, token.IDENT)
       ELSE IF ch \in digits THEN Scan(input, i + 1, ch, token.INT)
       ELSE IF ch \in {"=", "!"} /\ next = "="
       THEN <<Token(ch \o next, ch \o next)>> \o Scan(input, i + 2, "", "")
       ELSE IF ch \in symbols THEN <<Token(ch, ch)>> \o Scan(input, i + 1, "", "")
       ELSE <<Token(token.ILLEGAL, ch)>> \o Scan(input, i + 1, "", "")

\* ----------------------------------------------------------------- driver
VARIABLES
    test,     \* the input testEval was called with
    program,  \* the Program being evaluated
    pc,       \* index of the statement the loop of evalProgram is at
    env,      \* the environment testEval created
    mem,      \* environments and allocation counter
    result,   \* the variable result of evalProgram, then the value returned
    phase,    \* "idle", "running", "done" or "panic"; "parsing" or "parsed"
    hist,     \* ghost of the environment operations: what was Set, and the
              \* outer each environment was created with
    parser    \* the Parser: scanner, current and peek token, error list

vars == <<test, program, pc, env, mem, result, phase, hist, parser>>

EmptyHist == [last |-> [p \in {} |-> GoNil], parent |-> <<>>, first |-> NilNode]

Init ==
    /\ test = Test("", 0, 0, 0)
    /\ program = Program(<<>>)
    /\ pc = 0
    /\ env = NilEnv
    /\ mem = EmptyMem
    /\ result = GoNil
    /\ phase = "idle"
    /\ hist = EmptyHist
    /\ parser = New(lexer_New(<<>>))

\* testEval up to the entry of the loop of evalProgram
testEval(t) ==
    /\ phase = "idle"
    /\ LET e == NewEnvironment(EmptyMem)
       IN /\ env' = e.env
          /\ mem' = [e.m EXCEPT !.log = <<Source(t)>>]
    /\ test' = t
    /\ program' = Source(t)
    /\ pc' = 1
    /\ result' = GoNil
    /\ phase' = "running"
    /\ UNCHANGED <<hist, parser>>

\* one iteration of the loop of evalProgram
evalProgramStep ==
    /\ phase = "running"
    /\ pc <= Len(program.Statements)
    /\ LET r == Eval(program.Statements[pc], env, 0, mem)
       IN /\ mem' = r.m
          /\ IF IsPanic(r.val)
             THEN result' = r.val /\ phase' = "panic" /\ pc' = pc
             ELSE IF r.val.type = "RETURN_VALUE"
             THEN result' = r.val.Value /\ phase' = "done" /\ pc' = pc
             ELSE IF r.val.type = "ERROR"
             THEN result' = r.val /\ phase' = "done" /\ pc' = pc
             ELSE result' = r.val /\ phase' = "running" /\ pc' = pc + 1
    /\ UNCHANGED <<test, program, env, hist, parser>>

\* the loop of evalProgram is over: return result
evalProgramReturn ==
    /\ phase = "running"
    /\ pc > Len(program.Statements)
    /\ phase' = "done"
    /\ UNCHANGED <<test, program, pc, env, mem, result, hist, parser>>

Next ==
    \/ \E t \in Tests : testEval(t)
    \/ evalProgramStep
    \/ evalProgramReturn

Spec == Init /\ [][Next]_vars

\* ------------------------------------------------- environment operations
\* The operations of Environment on their own: any sequence of
\* NewEnvironment, NewEnclosedEnv and Set.
MaxEnvs == 3
EnvNames == {"x", "y"}
EnvValues == {Integer(1, FirstAddr + 1), Integer(2, FirstAddr + 2)}

EnvNewEnvironment ==
    /\ Len(mem.envs) < MaxEnvs
    /\ mem' = NewEnvironment(mem).m
    /\ hist' = [hist EXCEPT !.parent = Append(@, NilEnv)]
    /\ UNCHANGED <<test, program, pc, env, result, phase, parser>>

EnvNewEnclosedEnv ==
    /\ Len(mem.envs) < MaxEnvs
    /\ \E outer \in 1..Len(mem.envs) :
          /\ mem' = NewEnclosedEnv(outer, mem).m
          /\ hist' = [hist EXCEPT !.parent = Append(@, outer)]
    /\ UNCHANGED <<test, program, pc, env, result, phase, parser>>

EnvSet ==
    /\ \E r \in 1..Len(mem.envs), name \in EnvNames, val \in EnvValues :
          /\ mem' = [mem EXCEPT !.envs = Set(@, r, name, val)]
          /\ hist' = [hist EXCEPT !.last =
                         [p \in (DOMAIN @) \cup {<<r, name>>} |->
                            IF p = <<r, name>> THEN val ELSE @[p]]]
    /\ UNCHANGED <<test, program, pc, env, result, phase, parser>>

NextEnv == EnvNewEnvironment \/ EnvNewEnclosedEnv \/ EnvSet

SpecEnv == Init /\ [][NextEnv]_vars

\* ------------------------------------------------------- parsing a program
\* The inputs of the parser tests, as the token streams the scanner hands
\* to the parser.
MaxOps == 3

\* the binary operators New registers parseInfixExpression for
InfixOperators ==
    {token.PLUS, token.MINUS, token.SLASH, token.ASTERISK, token.EQ,
     token.NOT_EQ, token.LT, token.GT}

\* the i-th operand of a chain: an identifier ("ident") or an integer
\* literal ("int")
OperandToken(kind, i) ==
    IF kind = "ident"
    THEN Token(token.IDENT, <<"a", "b", "c", "d", "e", "f">>[i])
    ELSE Token(token.INT, Numeral(i, 10))

\* e1 op1 e2 ... opn en+1, with or without the closing semicolon
RECURSIVE ChainTokens(_, _, _)
ChainTokens(ops, kind, n) ==
    IF n = 0 THEN <<OperandToken(kind, 1)>>
    ELSE ChainTokens(ops, kind, n - 1)
         \o <<Token(ops[n], ops[n]), OperandToken(kind, n + 1)>>

\* ( e1 op1 e2 ) op2 e3   and   e1 op1 ( e2 op2 e3 )
GroupedTokens(op1, op2, left, kind) ==
    LET e(i) == OperandToken(kind, i)
        lp == Token(token.LPAREN, "(")
        rp == Token(token.RPAREN, ")")
    IN IF left
       THEN <<lp, e(1), Token(op1, op1), e(2), rp, Token(op2, op2), e(3)>>
       ELSE <<e(1), Token(op1, op1), lp, e(2), Token(op2, op2), e(3), rp>>

\* a + b * c + d / e -f
LongChainTokens ==
    <<Token(token.IDENT, "a"), Token(token.PLUS, "+"), Token(token.IDENT, "b"),
      Token(token.ASTERISK, "*"), Token(token.IDENT, "c"), Token(token.PLUS, "+"),
      Token(token.IDENT, "d"), Token(token.SLASH, "/"), Token(token.IDENT, "e"),
      Token(token.MINUS, "-"), Token(token.IDENT, "f")>>

\* 1 * (2 + 3) * 4
GroupInChainTokens ==
    <<Token(token.INT, "1"), Token(token.ASTERISK, "*"), Token(token.LPAREN, "("),
      Token(token.INT, "2"), Token(token.PLUS, "+"), Token(token.INT, "3"),
      Token(token.RPAREN, ")"), Token(token.ASTERISK, "*"), Token(token.INT, "4")>>

\* prefix operators, calls and indexes next to a binary operator: the
\* tokens of each input and the expression it stands for
\*   -a * b      a * -b      !-a       -a[b]      -a(b)
\*   a * b[c]    a[b] * c    a * f(b)  f(a) * b
\*   a[b][c]     f(a)(b)     a[b](c)   f(a)[b]
\*   a * [1,2,3,4][b*c] * d            a + add(b * c) + d
PostfixCases ==
    LET t(type) == Token(type, type)
        id(name) == Token(token.IDENT, name)
        int(n) == Token(token.INT, Numeral(n, 10))
        lp == t(token.LPAREN)
        rp == t(token.RPAREN)
        lb == t(token.LBRACKET)
        rb == t(token.RBRACKET)
        comma == t(token.COMMA)
        case(toks, exp) == [toks |-> toks, exp |-> exp]
    IN UNION {{case(<<t(pre), id("a"), t(op), id("b")>>,
                    Infix(Prefix(pre, Id("a")), op, Id("b"))),
               case(<<id("a"), t(op), t(pre), id("b")>>,
                    Infix(Id("a"), op, Prefix(pre, Id("b")))),
               case(<<t(pre), t(op2), id("a")>>,
                    Prefix(pre, Prefix(op2, Id("a")))),
               case(<<t(pre), id("a"), lb, id("b"), rb>>,
                    Prefix(pre, IndexExpression(Id("a"), Id("b")))),
               case(<<t(pre), id("a"), lp, id("b"), rp>>,
                    Prefix(pre, Call(Id("a"), <<Id("b")>>))),
               case(<<id("a"), t(op), id("b"), lb, id("c"), rb>>,
                    Infix(Id("a"), op, IndexExpression(Id("b"), Id("c")))),
               case(<<id("a"), lb, id("b"), rb, t(op), id("c")>>,
                    Infix(IndexExpression(Id("a"), Id("b")), op, Id("c"))),
               case(<<id("a"), t(op), id("f"), lp, id("b"), rp>>,
                    Infix(Id("a"), op, Call(Id("f"), <<Id("b")>>))),
               case(<<id("f"), lp, id("a"), rp, t(op), id("b")>>,
                    Infix(Call(Id("f"), <<Id("a")>>), op, Id("b")))} :
              pre \in {token.BANG, token.MINUS}, op2 \in {token.BANG, token.MINUS},
              op \in InfixOperators}
       \cup {case(<<id("a"), lb, id("b"), rb, lb, id("c"), rb>>,
                  IndexExpression(IndexExpression(Id("a"), Id("b")), Id("c"))),
             case(<<id("f"), lp, id("a"), rp, lp, id("b"), rp>>,
                  Call(Call(Id("f"), <<Id("a")>>), <<Id("b")>>)),
             case(<<id("a"), lb, id("b"), rb, lp, id("c"), rp>>,
                  Call(IndexExpression(Id("a"), Id("b")), <<Id("c")>>)),
             case(<<id("f"), lp, id("a"), rp, lb, id("b"), rb>>,
                  IndexExpression(Call(Id("f"), <<Id("a")>>), Id("b"))),
             case(<<id("a"), t(token.ASTERISK), lb, int(1), comma, int(2), comma,
                    int(3), comma, int(4), rb, lb, id("b"), t(token.ASTERISK),
                    id("c"), rb, t(token.ASTERISK), id("d")>>,
                  Infix(Infix(Id("a"), "*",
                              IndexExpression(ArrayLiteral(<<Lit(1), Lit(2), Lit(3), Lit(4)>>),
                                              Infix(Id("b"), "*", Id("c")))),
                        "*", Id("d"))),
             case(<<id("a"), t(token.PLUS), id("add"), lp, id("b"),
                    t(token.ASTERISK), id("c"), rp, t(token.PLUS), id("d")>>,
                  Infix(Infix(Id("a"), "+",
                              Call(Id("add"), <<Infix(Id("b"), "*", Id("c"))>>)),
                        "+", Id("d")))}

\* statements: let and return with and without the closing semicolon,
\* several statements, if-expressions and function literals
\*   let x = 5;    let x = 5    let x = a + b    return 5;    return 5
\*   return -a     let x = 5; let y = x;         a; b         a; -b
\*   1; 2          if (a) { b }                  if (a) { b } else { c }
\*   fn(x) { x }   fn(x, y) { x + y; }           fn() { a }(b)
StatementInputs ==
    LET t(type) == Token(type, type)
        id(name) == Token(token.IDENT, name)
        int(n) == Token(token.INT, Numeral(n, 10))
        let == Token(token.LET_, "let")
        return == Token(token.RETURN, "return")
        if == Token(token.IF_, "if")
        else == Token(token.ELSE_, "else")
        fn == Token(token.FUNCTION, "fn")
        semi == t(token.SEMICOLON)
        lp == t(token.LPAREN)
        rp == t(token.RPAREN)
        lc == t(token.LBRACE)
        rc == t(token.RBRACE)
    IN {<<let, id("x"), t(token.ASSIGN), int(5), semi>>,
        <<let, id("x"), t(token.ASSIGN), int(5)>>,
        <<let, id("x"), t(token.ASSIGN), id("a"), t(token.PLUS), id("b")>>,
        <<return, int(5), semi>>,
        <<return, int(5)>>,
        <<return, t(token.MINUS), id("a")>>,
        <<let, id("x"), t(token.ASSIGN), int(5), semi,
          let, id("y"), t(token.ASSIGN), id("x"), semi>>,
        <<id("a"), semi, id("b")>>,
        <<id("a"), semi, t(token.MINUS), id("b")>>,
        <<int(1), semi, int(2)>>,
        <<if, lp, id("a"), rp, lc, id("b"), rc>>,
        <<if, lp, id("a"), rp, lc, id("b"), rc, else, lc, id("c"), rc>>,
        <<fn, lp, id("x"), rp, lc, id("x"), rc>>,
        <<fn, lp, id("x"), t(token.COMMA), id("y"), rp, lc,
          id("x"), t(token.PLUS), id("y"), semi, rc>>,
        <<fn, lp, rp, lc, id("a"), rc, lp, id("b"), rp>>}

\* every token stream of up to MaxStream tokens over let, return, if, an
\* identifier, an integer, = ; - and the brackets ( ) { } [
MaxStream == 3

TokenStreams ==
    LET alphabet ==
            {Token(token.LET_, "let"), Token(token.RETURN, "return"),
             Token(token.IF_, "if"), Token(token.IDENT, "x"), Token(token.INT, "5")}
            \cup {Token(type, type) :
                    type \in {token.ASSIGN, token.SEMICOLON, token.MINUS,
                              token.LPAREN, token.RPAREN, token.LBRACE, token.RBRACE,
                              token.LBRACKET}}
    IN UNION {[1..n -> alphabet] : n \in 0..MaxStream}

\* {} and {"name": "Monkey", 1: true}; the token package has no kind for the
\* colon, which is an ILLEGAL token
HashTokens ==
    LET brace(type) == Token(type, type)
        colon == Token(token.ILLEGAL, ":")
    IN {<<brace(token.LBRACE), brace(token.RBRACE)>>,
        <<brace(token.LBRACE), Token(token.STRING, "name"), colon,
          Token(token.STRING, "Monkey"), Token(token.COMMA, ","), Token(token.INT, "1"),
          colon, Token(token.TRUE_, "true"), brace(token.RBRACE)>>}

\* fn() { }, fn(P) { } and fn(P, Q) { } for P, Q an identifier or a token of
\* another kind: an integer, true, a string, - and {
FunctionInputs ==
    LET t(type) == Token(type, type)
        fn == Token(token.FUNCTION, "fn")
        params == {Token(token.IDENT, "x"), Token(token.IDENT, "y"), Token(token.INT, "1"),
                   Token(token.TRUE_, "true"), Token(token.STRING, "s"),
                   t(token.MINUS), t(token.LBRACE)}
        body == <<t(token.LBRACE), t(token.RBRACE)>>
    IN {<<fn, t(token.LPAREN), t(token.RPAREN)>> \o body}
       \cup {<<fn, t(token.LPAREN), P, t(token.RPAREN)>> \o body : P \in params}
       \cup {<<fn, t(token.LPAREN), P, t(token.COMMA), Q, t(token.RPAREN)>> \o body :
               P \in params, Q \in params}

\* inputs with a character the scanner has no token for, @, where an
\* expression starts, and the program the parser makes of each
IllegalCases ==
    LET t(type) == Token(type, type)
        at == Token(token.ILLEGAL, "@")
        one == Token(token.INT, "1")
    IN <<[toks |-> <<at>>,
          program |-> Program(<<ES(NilNode)>>)],
         [toks |-> <<Token(token.LET_, "let"), Token(token.IDENT, "x"), t(token.ASSIGN), at,
                     t(token.SEMICOLON)>>,
          program |-> Program(<<Let("x", NilNode)>>)],
         [toks |-> <<Token(token.RETURN, "return"), at>>,
          program |-> Program(<<Ret(NilNode)>>)],
         [toks |-> <<one, t(token.PLUS), at>>,
          program |-> Program(<<ES(Infix(Lit(1), "+", NilNode))>>)],
         [toks |-> <<t(token.MINUS), at>>,
          program |-> Program(<<ES(Prefix("-", NilNode))>>)],
         [toks |-> <<t(token.LBRACKET), at, t(token.RBRACKET)>>,
          program |-> Program(<<ES(ArrayLiteral(<<NilNode>>))>>)],
         [toks |-> <<one, t(token.SEMICOLON), at, t(token.SEMICOLON), one>>,
          program |-> Program(<<ES(Lit(1)), ES(NilNode), ES(Lit(1))>>)]>>

ParserInputs ==
    UNION {{ChainTokens(ops, kind, n)
               \o (IF semi THEN <<Token(token.SEMICOLON, ";")>> ELSE <<>>) :
            ops \in [1..n -> InfixOperators], kind \in {"ident", "int"},
            semi \in BOOLEAN} : n \in 1..MaxOps}
    \cup {GroupedTokens(op1, op2, left, kind) :
             op1 \in InfixOperators, op2 \in InfixOperators, left \in BOOLEAN,
             kind \in {"ident", "int"}}
    \cup {LongChainTokens, GroupInChainTokens}
    \cup {c.toks : c \in PostfixCases}
    \cup StatementInputs
    \cup TokenStreams
    \cup HashTokens
    \cup FunctionInputs
    \cup {IllegalCases[i].toks : i \in DOMAIN IllegalCases}

\* l := lexer.New(input); p := New(l); and the entry of ParseProgram
ParserNew ==
    /\ phase = "idle"
    /\ \E input \in ParserInputs : parser' = New(lexer_New(input))
    /\ program' = Program(<<>>)
    /\ phase' = "parsing"
    /\ UNCHANGED <<test, pc, env, mem, result, hist>>

\* one iteration of the loop of ParseProgram
ParseProgramStep ==
    /\ phase = "parsing"
    /\ parser.curToken.Type # token.EOF
    /\ LET programNext(s) ==
               /\ program' = IF s.stmt # NilNode
                             THEN Program(Append(program.Statements, s.stmt))
                             ELSE program
               /\ parser' = nextToken(s.p)
       IN programNext(parseStatement(parser))
    /\ UNCHANGED <<test, pc, env, mem, result, phase, hist>>

\* the loop of ParseProgram is over: return program
ParseProgramReturn ==
    /\ phase = "parsing"
    /\ parser.curToken.Type = token.EOF
    /\ phase' = "parsed"
    /\ UNCHANGED <<test, program, pc, env, mem, result, hist, parser>>

\* program.String() of a program parsed without errors is parsed in turn;
\* hist.first keeps the program it was made from
Reparse ==
    /\ phase = "parsed"
    /\ hist.first = NilNode
    /\ parser.errors = <<>>
    /\ parser' = New(lexer_New(Scan(Node_String(program), 1, "", "")))
    /\ hist' = [hist EXCEPT !.first = program]
    /\ program' = Program(<<>>)
    /\ phase' = "parsing"
    /\ UNCHANGED <<test, pc, env, mem, result>>

NextParse ==
    \/ ParserNew
    \/ ParseProgramStep
    \/ ParseProgramReturn
    \/ Reparse

SpecParse == Init /\ [][NextParse]_vars

\* ------------------------------------------ the parser of parser/parser.go
\* The parser of src/parser/parser.go registers parseIdentifier,
\* parseIntegerLiteral, parseBoolean, parsePrefixExpression and
\* parseInfixExpression only, and its parseLetStatement and
\* parseReturnStatement skip the tokens up to the semicolon.  On the tokens
\* it registers, its parseExpressionStatement is the one above.  The local
\* stmt of parseLetStatement / parseReturnStatement is kept in result.
SkipAlphabet ==
    {token.LET_, token.RETURN, token.IDENT, token.INT, token.ASSIGN, token.SEMICOLON,
     token.MINUS}

\* l := lexer.New(input); p := New(l); and the entry of ParseProgram
SkipParserNew ==
    /\ phase = "idle"
    /\ \E input \in TokenStreams :
          /\ \A i \in 1..Len(input) : input[i].Type \in SkipAlphabet
          /\ parser' = New(lexer_New(input))
    /\ program' = Program(<<>>)
    /\ phase' = "skip:parsing"
    /\ UNCHANGED <<test, pc, env, mem, result, hist>>

\* one iteration of the loop of ParseProgram, up to the loop of
\* parseLetStatement / parseReturnStatement when the statement is one
SkipParseStatement ==
    /\ phase = "skip:parsing"
    /\ parser.curToken.Type # token.EOF
    /\ LET finish(s) ==
               /\ program' = IF s.stmt # NilNode
                             THEN Program(Append(program.Statements, s.stmt))
                             ELSE program
               /\ parser' = nextToken(s.p)
               /\ UNCHANGED <<phase, result>>
           skip(stmt, p) ==
               /\ result' = stmt
               /\ parser' = p
               /\ phase' = "skip:skipping"
               /\ UNCHANGED program
           assign(name, e2) ==
               IF ~e2.ok THEN finish([stmt |-> NilLetStatement, p |-> e2.p])
               ELSE skip(LetStatement(name, NilNode), e2.p)
           name(e1) ==
               IF ~e1.ok THEN finish([stmt |-> NilLetStatement, p |-> e1.p])
               ELSE assign(e1.p.curToken.Literal, expectPeek(e1.p, token.ASSIGN))
       IN CASE parser.curToken.Type = token.LET_ ->
                   name(expectPeek(parser, token.IDENT))
            [] parser.curToken.Type = token.RETURN ->
                   skip(ReturnStatement(NilNode), nextToken(parser))
            [] OTHER -> finish(parseExpressionStatement(parser))
    /\ UNCHANGED <<test, pc, env, mem, hist>>

\* for !p.curTokenIs(token.SIMICOLON) { p.nextToken() }: one iteration
SkipNextToken ==
    /\ phase = "skip:skipping"
    /\ ~curTokenIs(parser, token.SEMICOLON)
    /\ parser' = nextToken(parser)
    /\ UNCHANGED <<test, program, pc, env, mem, result, phase, hist>>

\* the loop is over: return stmt, and the rest of the iteration of ParseProgram
SkipReturnStatement ==
    /\ phase = "skip:skipping"
    /\ curTokenIs(parser, token.SEMICOLON)
    /\ program' = Program(Append(program.Statements, result))
    /\ parser' = nextToken(parser)
    /\ result' = GoNil
    /\ phase' = "skip:parsing"
    /\ UNCHANGED <<test, pc, env, mem, hist>>

\* the loop of ParseProgram is over: return program
SkipParseProgramReturn ==
    /\ phase = "skip:parsing"
    /\ parser.curToken.Type = token.EOF
    /\ phase' = "skip:parsed"
    /\ UNCHANGED <<test, program, pc, env, mem, result, hist, parser>>

\* ParseProgram, once called, runs on as long as it has a step to take.  Every
\* step of SkipParseStatement consumes a token of a finite input, so its weak
\* fairness is the same as not staying for ever where it is enabled.
NextSkip ==
    \/ SkipParserNew
    \/ SkipParseStatement
    \/ SkipNextToken
    \/ SkipReturnStatement
    \/ SkipParseProgramReturn

SpecSkip ==
    /\ Init /\ [][NextSkip]_vars
    /\ []<>~(phase = "skip:parsing" /\ parser.curToken.Type # token.EOF)
    /\ WF_vars(SkipNextToken)
    /\ WF_vars(SkipReturnStatement)
    /\ WF_vars(SkipParseProgramReturn)

\* -------------------------------------------------------------- hash keys
HashKey(type, value) == [Type |-> type, Value |-> value]

\* []byte(s) for the strings of HashStrings
HashStrings == {"", "a", "b", "ab", "ba"}

Bytes(s) ==
    CASE s = "" -> <<>>
      [] s = "a" -> <<97>>
      [] s = "b" -> <<98>>
      [] s = "ab" -> <<97, 98>>
      [] s = "ba" -> <<98, 97>>

\* x ^ y on words of WordBits bits
RECURSIVE Xor(_, _, _)
Xor(x, y, bits) ==
    IF bits = 0 THEN 0
    ELSE ((x + y) % 2) + 2 * Xor(x \div 2, y \div 2, bits - 1)

\* fnv.New64a, Write, Sum64: FNV-1a, hash = (hash ^ byte) * prime for every
\* byte, from the offset basis 14695981039346656037 with the prime
\* 1099511628211, in a word of WordBits bits (8 <= WordBits <= 16)
RECURSIVE Sum64a(_, _)
Sum64a(bytes, hash) ==
    IF bytes = <<>> THEN hash
    ELSE Sum64a(Tail(bytes),
                (Xor(hash, Head(bytes) % Pow2(WordBits), WordBits) * (435 % Pow2(WordBits)))
                    % Pow2(WordBits))

\* a digest that depends on the object, not on its content
GetHash_OfAddress(obj) == HashKey(obj.type, obj.addr)

\* Boolean.GetHash, Integer.GetHash, String.GetHash
GetHash(obj) ==
    CASE obj.type = "BOOLEAN" -> HashKey(obj.type, IF obj.bval THEN 1 ELSE 0)
      [] obj.type = "INTEGER" -> HashKey(obj.type, obj.ival % Pow2(WordBits))
      [] obj.type = "STRING" ->
             HashKey(obj.type, Sum64a(Bytes(obj.sval), 8997 % Pow2(WordBits)))

\* the hashable objects of the checks: each content in two objects
Hashables ==
    LET addrs == {FirstAddr, FirstAddr + 1}
        ints == {MinInt, 0 - 1, 0, 1, 2, MaxInt}
    IN {[type |-> "BOOLEAN", bval |-> b, addr |-> a] : b \in BOOLEAN, a \in addrs}
       \cup {Integer(n, a) : n \in ints, a \in addrs}
       \cup {String(str, a) : str \in HashStrings, a \in addrs}

\* hello1 := &String{...}; hello2 := &String{...}
testGetHash ==
    /\ phase = "idle"
    /\ \E x \in Hashables, y \in Hashables : result' = <<x, y>>
    /\ phase' = "hashing"
    /\ UNCHANGED <<test, program, pc, env, mem, hist, parser>>

\* hello1.GetHash(), hello2.GetHash()
GetHashStep ==
    /\ phase = "hashing"
    /\ result' = <<result[1], result[2], GetHash(result[1]), GetHash(result[2])>>
    /\ phase' = "hashed"
    /\ UNCHANGED <<test, program, pc, env, mem, hist, parser>>

NextHash == testGetHash \/ GetHashStep

SpecHash == Init /\ [][NextHash]_vars

\* ----------------------------------------------------------------- claims
IsInteger(obj, n) == obj.type = "INTEGER" /\ obj.ival = n

\* every name a test input binds or looks up
AllNames ==
    {"x", "y", "z", "f", "g", "h", "mk", "n", "v", "k", "p", "q", "sib",
     "len", "first", "puts", "foobar"}

\* C5: closures are lexically scoped: let mk = fn(x) { fn(y) { x + y } };
\* mk(a)(b) evaluates to a + b, and a free variable of a function body is
\* resolved in the environment the function literal was evaluated in, not in
\* the environment of the caller.
C5_LexicalScope ==
    phase = "done" /\ test.family = "closure"
        => IF test.k = 1
           THEN IsInteger(result, Wrap(test.a + test.b))
           ELSE IsInteger(result, test.a)

C5_Witness ==
    /\ phase = "done"
    /\ test = Test("closure", 1, MaxLit, 0 - 1)
    /\ IsInteger(result, MaxLit - 1)
    /\ Len(mem.calls) = 2

\* C6: a closure shares its defining environment: a let executed in that
\* environment after the function was created is seen by a later call, so a
\* function bound with let can call itself.
C6_SharedEnvironment ==
    phase = "done" /\ test.family = "shared"
        => CASE test.k = 1 -> IsInteger(result, test.a)
             [] test.k = 2 -> IsInteger(result, test.b)
             [] test.k = 3 -> IsInteger(result, IF test.a < 1 THEN 0
                                                ELSE (test.a * (test.a + 1)) \div 2)
             [] test.k = 4 -> IsInteger(result, test.a)

C6_Witness ==
    /\ phase = "done"
    /\ test.family = "shared" /\ test.k = 2 /\ test.a # test.b
    /\ IsInteger(result, test.b)
    /\ Len(mem.calls) = 1

\* C7: let and parameter binding are scope-local: a completed call of a
\* user function leaves the stores of the function's defining environment
\* and of the caller's environment as they were, and Get of every name in
\* those environments gives what it gave before the call.
C7_ScopeLocal ==
    /\ \A i \in 1..Len(mem.calls) :
          LET c == mem.calls[i]
          IN \A e \in {c.defined, c.caller} :
                /\ c.before[e].store = c.after[e].store
                /\ \A name \in AllNames : Get(c.before, e, name) = Get(c.after, e, name)
    /\ phase = "done" /\ test.family = "scope"
          => IF test.k = 3 THEN IsInteger(result, Wrap(test.b + test.a))
             ELSE IsInteger(result, test.a)

C7_Witness ==
    /\ phase = "done"
    /\ test.family = "scope" /\ test.k = 1 /\ test.a # test.b
    /\ \E i \in 1..Len(mem.calls) :
          LET c == mem.calls[i]
          IN /\ "x" \in DOMAIN c.after[c.callEnv].store
             /\ IsInteger(c.after[c.callEnv].store["x"], test.b)
             /\ IsInteger(c.after[c.defined].store["x"], test.a)
             /\ IsInteger(Get(mem.envs, env, "x").obj, test.a)

\* C9: an identifier evaluates to its binding in the environment chain when
\* there is one, otherwise to the built-in of that name when there is one,
\* otherwise to the error "identifier not found: n"; so a let of a built-in's
\* name shadows the built-in for later lookups through that scope.
C9_IdentifierLookup ==
    phase = "done" /\ test.family = "ident"
        => LET n == IdentNames[test.a]
           IN IF test.k \in {2, 3, 5} THEN IsInteger(result, test.b)
              ELSE IF IsBuiltinName(n) THEN result = builtins(n)
              ELSE result.type = "ERROR" /\ result.Message = "identifier not found: " \o n

C9_Witness ==
    /\ phase = "done"
    /\ test = Test("ident", 5, 1, MaxLit)
    /\ IsInteger(result, MaxLit)
    /\ IsInteger(Get(mem.envs, env, "len").obj, MaxLit)

\* C2: when a sub-expression yields an Error, nothing is evaluated after it
\* and that Error object is the result of the program: no second Error is
\* created, no node is entered after the Error was created, and a let whose
\* value is the Error binds nothing.
C2_ErrorShortCircuit ==
    /\ Len(mem.errs) > 0
          => /\ phase = "done"
             /\ Len(mem.errs) = 1
             /\ result.type = "ERROR" /\ result.addr = mem.errs[1].addr
             /\ Len(mem.log) = mem.errs[1].at
    /\ phase \in {"done", "panic"} /\ test.family = "error"
          => /\ phase = "done" /\ pc = 1
             /\ result.type = "ERROR" /\ result.Message = ErrorMessage(test.a)
             /\ \A i \in 1..Len(mem.log) : mem.log[i] # Id("sib")
             /\ \A e \in 1..Len(mem.envs) : "v" \notin DOMAIN mem.envs[e].store

C2_Witness ==
    /\ phase = "done"
    /\ test = Test("error", 6, 4, 4)
    /\ result.type = "ERROR" /\ result.Message = "identifier not found: foobar"
    /\ Len(mem.errs) = 1

\* a ReturnValue, or an Array that holds one
RECURSIVE HoldsReturnValue(_)
HoldsReturnValue(obj) ==
    \/ obj.type = "RETURN_VALUE"
    \/ /\ obj.type = "ARRAY"
       /\ \E i \in 1..Len(obj.Elements) : HoldsReturnValue(obj.Elements[i])

\* C1: the value the program evaluates to is never a ReturnValue, and no
\* ReturnValue is bound in an environment or held by an Array.
C1_ReturnValueNeverEscapes ==
    /\ phase = "done" => ~HoldsReturnValue(result)
    /\ \A e \in 1..Len(mem.envs) :
          \A name \in DOMAIN mem.envs[e].store : ~HoldsReturnValue(mem.envs[e].store[name])

\* C3: evaluation never ends in a fault of the host: every operator, call
\* and index application yields a value or an Error.
C3_DispatchTotal == phase # "panic"

\* C4: a return executed at any depth of nested if-blocks ends the innermost
\* function invocation (or the program) with the returned value, the blocks
\* in between evaluate none of their remaining statements, and the caller
\* goes on.
C4_ReturnEndsInvocation ==
    phase \in {"done", "panic"} /\ test.family = "return"
        => /\ phase = "done"
           /\ IsInteger(result, ReturnExpected(test))
           /\ \A i \in 1..Len(mem.log) : mem.log[i] # Id("sib")

\* the part of C4 that the code keeps: a return in if-blocks that are
\* themselves statements of their block
C4_StatementLevelReturn ==
    test.b \in 1..4 => C4_ReturnEndsInvocation

\* the environments from r outward, by the outer each was created with
RECURSIVE CreatedChain(_)
CreatedChain(r) == IF r = NilEnv THEN <<>> ELSE <<r>> \o CreatedChain(hist.parent[r])

\* C8: after any sequence of NewEnvironment, NewEnclosedEnv and Set, Get of
\* a name on an environment finds the value most recently Set for the name
\* in the innermost environment of the outer chain in which the name was
\* Set, and finds nothing exactly when the name was Set in none of them.
C8_GetFindsInnermost ==
    \A r \in 1..Len(mem.envs) : \A name \in EnvNames :
        LET chain == CreatedChain(r)
            hits == {i \in 1..Len(chain) : <<chain[i], name>> \in DOMAIN hist.last}
            g == Get(mem.envs, r, name)
        IN IF hits = {} THEN ~g.ok
           ELSE LET first == CHOOSE i \in hits : \A j \in hits : i <= j
                IN g.ok /\ g.obj = hist.last[<<chain[first], name>>]

C8_Witness ==
    /\ Len(mem.envs) = 3
    /\ hist.parent = <<NilEnv, 1, 2>>
    /\ DOMAIN hist.last = {<<1, "x">>, <<2, "x">>, <<1, "y">>}
    /\ Get(mem.envs, 3, "x").obj = hist.last[<<2, "x">>]
    /\ hist.last[<<2, "x">>] # hist.last[<<1, "x">>]
    /\ Get(mem.envs, 3, "y").ok
    /\ ~Get(mem.envs, 1, "z").ok

\* the order the operators are ranked in: == !=  <  < >  <  + -  <  * /
Rank(op) ==
    CASE op \in {"==", "!="} -> 1
      [] op \in {"<", ">"} -> 2
      [] op \in {"+", "-"} -> 3
      [] op \in {"*", "/"} -> 4

\* the tokens without a closing semicolon
Unterminated(toks) ==
    IF Len(toks) > 0 /\ toks[Len(toks)].Type = token.SEMICOLON
    THEN SubSeq(toks, 1, Len(toks) - 1)
    ELSE toks

IsOperand(tok) == tok.Type \in {token.IDENT, token.INT}

\* e1 op1 e2 ... opn en+1 with n >= 1
IsChain(toks) ==
    /\ Len(toks) >= 3
    /\ Len(toks) % 2 = 1
    /\ \A i \in 1..Len(toks) :
          IF i % 2 = 1 THEN IsOperand(toks[i]) ELSE toks[i].Type \in InfixOperators

\* ( e1 op1 e2 ) op2 e3
IsLeftGroup(toks) ==
    /\ Len(toks) = 7
    /\ toks[1].Type = token.LPAREN /\ toks[5].Type = token.RPAREN
    /\ IsChain(<<toks[2], toks[3], toks[4], toks[6], toks[7]>>)

\* e1 op1 ( e2 op2 e3 )
IsRightGroup(toks) ==
    /\ Len(toks) = 7
    /\ toks[3].Type = token.LPAREN /\ toks[7].Type = token.RPAREN
    /\ IsChain(<<toks[1], toks[2], toks[4], toks[5], toks[6]>>)

OperandNode(tok) ==
    IF tok.Type = token.IDENT
    THEN Identifier(tok.Literal)
    ELSE IntegerLiteral(strconv_ParseInt(tok.Literal).ival)

\* the tree of a chain under left-associativity and the ranks: its root is
\* the last operator of least rank
RECURSIVE ChainTree(_)
ChainTree(toks) ==
    IF Len(toks) = 1 THEN OperandNode(toks[1])
    ELSE LET opsAt == {i \in 1..Len(toks) : i % 2 = 0}
             least == CHOOSE r \in {Rank(toks[i].Literal) : i \in opsAt} :
                         \A i \in opsAt : r <= Rank(toks[i].Literal)
             root == CHOOSE i \in opsAt :
                        /\ Rank(toks[i].Literal) = least
                        /\ \A j \in opsAt : Rank(toks[j].Literal) = least => j <= i
         IN InfixExpression(ChainTree(SubSeq(toks, 1, root - 1)),
                            toks[root].Literal,
                            ChainTree(SubSeq(toks, root + 1, Len(toks))))

\* C10: the binary operators are left-associative and ranked == != below
\* < > below + - below * /: the chain e1 op1 e2 op2 e3 parses to
\* (e1 op1 (e2 op2 e3)) when op2 ranks strictly above op1 and to
\* ((e1 op1 e2) op2 e3) otherwise, a longer chain parses to the tree rooted
\* at its last operator of least rank, and a parenthesised group is one
\* operand whatever the operators around it.
C10_InfixPrecedence ==
    phase = "parsed" =>
        LET toks == Unterminated(parser.l.input)
            e(i) == OperandNode(toks[i])
            only(exp) ==
                /\ parser.errors = <<>>
                /\ program = Program(<<ExpressionStatement(exp)>>)
        IN /\ IsChain(toks) /\ Len(toks) = 5 =>
                 IF Rank(toks[4].Literal) > Rank(toks[2].Literal)
                 THEN only(InfixExpression(e(1), toks[2].Literal,
                               InfixExpression(e(3), toks[4].Literal, e(5))))
                 ELSE only(InfixExpression(
                               InfixExpression(e(1), toks[2].Literal, e(3)),
                               toks[4].Literal, e(5)))
           /\ IsChain(toks) => only(ChainTree(toks))
           /\ IsLeftGroup(toks) =>
                 only(InfixExpression(InfixExpression(e(2), toks[3].Literal, e(4)),
                                      toks[6].Literal, e(7)))
           /\ IsRightGroup(toks) =>
                 only(InfixExpression(e(1), toks[2].Literal,
                          InfixExpression(e(4), toks[5].Literal, e(6))))
           /\ toks = GroupInChainTokens =>
                 only(Infix(Infix(Lit(1), "*", Infix(Lit(2), "+", Lit(3))), "*", Lit(4)))

\* a + b * c + d / e -f has been parsed to (((a+(b*c))+(d/e))-f)
C10_Witness ==
    /\ phase = "parsed"
    /\ parser.l.input = LongChainTokens
    /\ parser.errors = <<>>
    /\ program =
         Program(<<ES(Infix(Infix(Infix(Id("a"), "+", Infix(Id("b"), "*", Id("c"))),
                                  "+", Infix(Id("d"), "/", Id("e"))),
                            "-", Id("f")))>>)

\* C11: the prefix operators ! and - bind tighter than every binary operator
\* and looser than call and index, and call and index bind tighter than every
\* binary operator and chain from left to right: each input of PostfixCases
\* parses without error to the one expression statement it stands for.
C11_PrefixAndPostfixBinding ==
    phase = "parsed" =>
        \A c \in PostfixCases :
            parser.l.input = c.toks
                => /\ parser.errors = <<>>
                   /\ program = Program(<<ExpressionStatement(c.exp)>>)

\* -a * b has been parsed to ((-a)*b)
C11_Witness ==
    /\ phase = "parsed"
    /\ parser.l.input = <<Token(token.MINUS, "-"), Token(token.IDENT, "a"),
                          Token(token.ASTERISK, "*"), Token(token.IDENT, "b")>>
    /\ parser.errors = <<>>
    /\ program = Program(<<ES(Infix(Prefix("-", Id("a")), "*", Id("b")))>>)

\* C12: for every source that parses without errors, the String() of its
\* program parses without errors to a program of the same shape: the same
\* statements, node kinds, operators and operands.
C12_StringRoundTrip ==
    phase = "parsed" /\ hist.first # NilNode
        => /\ parser.errors = <<>>
           /\ program = hist.first

\* the part of C12 the code keeps: a program that is one expression
\* statement without if-expression and function literal
RECURSIVE Bare(_)
Bare(node) ==
    LET k == node.node
        each(nodes) == \A i \in 1..Len(nodes) : Bare(nodes[i])
    IN CASE k \in {"Identifier", "IntegerLiteral", "Boolean"} -> TRUE
         [] k = "PrefixExpression" -> Bare(node.Right)
         [] k = "InfixExpression" -> Bare(node.Left) /\ Bare(node.Right)
         [] k = "IndexExpression" -> Bare(node.Left) /\ Bare(node.Index)
         [] k = "CallExpression" -> Bare(node.CallableName) /\ each(node.ActualParams)
         [] k = "ArrayLiteral" -> each(node.Elements)
         [] OTHER -> FALSE

C12_ExpressionRoundTrip ==
    /\ hist.first # NilNode
    /\ Len(hist.first.Statements) = 1
    /\ hist.first.Statements[1].node = "ExpressionStatement"
    /\ Bare(hist.first.Statements[1].ExpressionValue)
    => C12_StringRoundTrip

\* C13: ParseProgram terminates on every finite token stream; in particular
\* a final let or return statement without a semicolon before EOF is parsed
\* into its statement and parsing ends.
C13_ParseProgramTerminates ==
    phase \in {"skip:parsing", "skip:skipping"} ~> phase = "skip:parsed"

\* the part of C13 the later parser keeps: `let x = 5` and `return 5` without
\* semicolon are parsed into their statements
C13_LaterParserOptionalSemicolon ==
    phase = "parsed" =>
        LET toks == parser.l.input
        IN /\ toks = <<Token(token.LET_, "let"), Token(token.IDENT, "x"),
                       Token(token.ASSIGN, "="), Token(token.INT, "5")>>
                 => parser.errors = <<>> /\ program = Program(<<Let("x", Lit(5))>>)
           /\ toks = <<Token(token.RETURN, "return"), Token(token.INT, "5")>>
                 => parser.errors = <<>> /\ program = Program(<<Ret(Lit(5))>>)

\* the program A op B of the family of operands has run to its end
InfixDone == phase \in {"done", "panic"} /\ test.family = "value" /\ test.k \in 1..8

IsErrorMessage(msg) ==
    phase = "done" /\ result.type = "ERROR" /\ result.Message = msg

\* C14: on operands of two different runtime types == yields false and !=
\* yields true, never an error, and every other infix operator yields the
\* error `type mismatch: <L> <op> <R>`; operands of one type that is neither
\* Integer nor String yield `unknown operator: <L> <op> <R>` for the
\* operators other than == and !=.
C14_MixedTypeOperands ==
    InfixDone =>
        LET L == OperandType(test.a)
            R_ == OperandType(test.b)
            op == InfixOps[test.k]
        IN /\ L # R_ =>
                CASE op = "==" -> phase = "done" /\ result = FALSE_
                  [] op = "!=" -> phase = "done" /\ result = TRUE_
                  [] OTHER -> IsErrorMessage("type mismatch: " \o L \o " " \o op \o " " \o R_)
           /\ L = R_ /\ L \notin {"INTEGER", "STRING"} /\ op \notin {"==", "!="} =>
                IsErrorMessage("unknown operator: " \o L \o " " \o op \o " " \o R_)

\* 5 + true has given type mismatch: INTEGER + BOOLEAN, or a string == a function false
C14_Witness ==
    /\ InfixDone
    /\ OperandType(test.a) = "STRING" /\ OperandType(test.b) = "FUNCTION"
    /\ InfixOps[test.k] = "=="
    /\ result = FALSE_

\* C15: on two String operands + yields the String that is left followed by
\* right, and each of - * / < > == != yields the error
\* `unknown operator: STRING <op> STRING`.
C15_StringInfix ==
    InfixDone /\ OperandType(test.a) = "STRING" /\ OperandType(test.b) = "STRING" =>
        LET op == InfixOps[test.k]
        IN IF op = "+"
           THEN /\ phase = "done" /\ result.type = "STRING"
                /\ result.sval = StringOperands[test.a - 11] \o StringOperands[test.b - 11]
           ELSE IsErrorMessage("unknown operator: STRING " \o op \o " STRING")

\* the part of C15 the code keeps: + and - * / < >
C15_StringInfixButEquality ==
    InfixDone /\ InfixOps[test.k] \notin {"==", "!="} => C15_StringInfix

\* what == and != on two strings give: a comparison of the two objects
C15_StringEqualityIsIdentity ==
    /\ InfixDone /\ OperandType(test.a) = "STRING" /\ OperandType(test.b) = "STRING" =>
          /\ InfixOps[test.k] = "==" => result = FALSE_
          /\ InfixOps[test.k] = "!=" => result = TRUE_
    /\ phase = "done" /\ test.family = "value" /\ test.k \in 9..10
          /\ OperandType(test.a) = "STRING" =>
              result = (IF test.k = 9 THEN TRUE_ ELSE FALSE_)

\* the values the claim C16 calls truthy: all but Null and false
Truthy(i) == Operands[i] # BooleanLiteral(FALSE) /\ OperandType(i) # "NULL"

\* C16: if and ! share one truthiness: if (v) {A} else {B} evaluates A and not
\* B exactly when v is neither Null nor false, otherwise B, or Null without an
\* else; !v is true exactly when v is Null or false, and !!v is true exactly
\* when if (v) takes the consequence.
C16_Truthiness ==
    phase \in {"done", "panic"} /\ test.family = "value" /\ test.k \in 12..15 =>
        /\ phase = "done"
        /\ test.k = 12 => result = (IF Truthy(test.a) THEN FALSE_ ELSE TRUE_)
        /\ test.k = 13 => result = (IF Truthy(test.a) THEN TRUE_ ELSE FALSE_)
        /\ test.k = 14 =>
              /\ Len(mem.calls) = 1
              /\ result.type = "INTEGER"
              /\ result.ival = (IF Truthy(test.a) THEN 1 ELSE 2)
        /\ test.k = 15 =>
              IF Truthy(test.a)
              THEN Len(mem.calls) = 1 /\ result.type = "INTEGER" /\ result.ival = 1
              ELSE mem.calls = <<>> /\ result = NULL

\* if (0) { f() } else { g() } has called f and not g
C16_Witness ==
    /\ phase = "done" /\ test.family = "value" /\ test.k = 14
    /\ Operands[test.a] = Lit(0)
    /\ Len(mem.calls) = 1 /\ result.type = "INTEGER" /\ result.ival = 1

\* the number of MinInt..MaxInt that differs from x by a multiple of 2^WordBits
Reduced(x) == CHOOSE r \in MinInt..MaxInt : (x - r) % Pow2(WordBits) = 0

\* the quotient of x by y # 0 with the fraction dropped
Truncated(x, y) ==
    LET abs(n) == IF n < 0 THEN 0 - n ELSE n
    IN CHOOSE q \in MinInt..(MaxInt + 1) :
           abs(q * y) <= abs(x) /\ abs(x - q * y) < abs(y)

IsInt(n) == phase = "done" /\ result.type = "INTEGER" /\ result.ival = n

IsBool(b) == phase = "done" /\ result = (IF b THEN TRUE_ ELSE FALSE_)

\* C17: Integer arithmetic wraps in the signed word: a + b, a - b, a * b are
\* the mathematical result reduced modulo 2^WordBits, a / b for b # 0 is the
\* quotient truncated toward zero (MinInt / -1 wraps to MinInt), -a is the
\* wrapped negation, and < > == != compare by value and yield a Boolean.
C17_IntegerArithmetic ==
    /\ InfixDone /\ test.a \in 1..9 /\ test.b \in 1..9 =>
          LET a == IntOperands[test.a]
              b == IntOperands[test.b]
              op == InfixOps[test.k]
          IN CASE op = "+" -> IsInt(Reduced(a + b))
               [] op = "-" -> IsInt(Reduced(a - b))
               [] op = "*" -> IsInt(Reduced(a * b))
               [] op = "/" -> b # 0 => IsInt(Reduced(Truncated(a, b)))
               [] op = "<" -> IsBool(a < b)
               [] op = ">" -> IsBool(a > b)
               [] op = "==" -> IsBool(a = b)
               [] op = "!=" -> IsBool(a # b)
    /\ phase \in {"done", "panic"} /\ test.family = "value" /\ test.k = 11
          /\ test.a \in 1..9 => IsInt(Reduced(0 - IntOperands[test.a]))

\* MinInt / -1 has given MinInt
C17_Witness ==
    /\ InfixDone /\ InfixOps[test.k] = "/"
    /\ test.a \in 1..9 /\ test.b \in 1..9
    /\ IntOperands[test.a] = MinInt /\ IntOperands[test.b] = 0 - 1
    /\ IsInt(MinInt)

\* C18: indexing an Array of n elements with an Integer i yields the element
\* at position i when 0 <= i < n and Null for every other i, negative, n or
\* beyond, and in the empty array; never an error, never a fault.
C18_ArrayIndex ==
    phase \in {"done", "panic"} /\ test.family = "value" /\ test.k = 16 =>
        LET n == test.a
            i == IntOperands[test.b]
        IN IF 0 <= i /\ i < n THEN IsInt(10 * (i + 1))
           ELSE phase = "done" /\ result = NULL

\* [10, 20, 30][2] has given 30
C18_Witness ==
    /\ phase = "done" /\ test.family = "value" /\ test.k = 16
    /\ test.a = 3 /\ IntOperands[test.b] = 2
    /\ IsInt(30)

\* C19: a hash literal {k1: v1, ...} parses (and evaluates to a Hash value,
\* whose index with a hashable key yields the stored value or Null, and with
\* another key the error `unusable as hash key: <type>`).
C19_HashLiteralParses ==
    phase = "parsed" /\ parser.l.input \in HashTokens =>
        /\ parser.errors = <<>>
        /\ Len(program.Statements) = 1
        /\ program.Statements[1].node = "ExpressionStatement"
        /\ program.Statements[1].ExpressionValue.node = "HashLiteral"

\* what the parser does with {}: no prefix parse function is registered for {
C19_NoPrefixParseFunction ==
    phase = "parsed" /\ parser.l.input \in HashTokens =>
        /\ Len(parser.errors) > 0
        /\ parser.errors[1] = "no prefix parse function for { found"

\* the content of a hashable object
Content(obj) ==
    CASE obj.type = "BOOLEAN" -> <<obj.type, obj.bval>>
      [] obj.type = "INTEGER" -> <<obj.type, obj.ival>>
      [] obj.type = "STRING" -> <<obj.type, obj.sval>>

\* C20: GetHash is a function of type tag and value: two objects of one
\* hashable type with equal content have equal HashKeys, two Integers of
\* different value and the two Booleans have different HashKeys (the digest
\* of an Integer is its bit pattern as unsigned, of a Boolean 1 or 0), and
\* values of different types never have equal HashKeys.
C20_GetHash ==
    phase = "hashed" =>
        LET x == result[1]
            y == result[2]
            kx == result[3]
            ky == result[4]
        IN /\ Content(x) = Content(y) => kx = ky
           /\ x.type = y.type /\ x.type \in {"INTEGER", "BOOLEAN"}
                 /\ Content(x) # Content(y) => kx # ky
           /\ x.type = "INTEGER" =>
                 /\ kx.Value \in 0..(Pow2(WordBits) - 1)
                 /\ (kx.Value - x.ival) % Pow2(WordBits) = 0
           /\ x.type = "BOOLEAN" => kx.Value = (IF x.bval THEN 1 ELSE 0)
           /\ x.type # y.type => kx # ky

\* the Integer 1 and true: the same digest, different keys; and two String
\* objects "ab" with one key
C20_Witness ==
    /\ phase = "hashed"
    /\ \/ /\ result[1].type = "INTEGER" /\ result[1].ival = 1
          /\ result[2].type = "BOOLEAN" /\ result[2].bval
          /\ result[3].Value = result[4].Value /\ result[3] # result[4]
       \/ /\ result[1].type = "STRING" /\ result[1].sval = "ab"
          /\ result[2].type = "STRING" /\ result[2].sval = "ab"
          /\ result[1].addr # result[2].addr
          /\ result[3] = result[4]

\* every Boolean and every Null in obj is the TRUE, FALSE or NULL object
RECURSIVE OnlySingletons(_)
OnlySingletons(obj) ==
    CASE obj.type = "BOOLEAN" -> obj \in {TRUE_, FALSE_}
      [] obj.type = "NULL" -> obj = NULL
      [] obj.type = "ARRAY" ->
             \A i \in 1..Len(obj.Elements) : OnlySingletons(obj.Elements[i])
      [] obj.type = "RETURN_VALUE" -> OnlySingletons(obj.Value)
      [] OTHER -> TRUE

Singleton(value) ==
    CASE value = "true" -> TRUE_
      [] value = "false" -> FALSE_
      [] value = "null" -> NULL

\* C21: in every execution every Boolean and every Null the evaluator
\* produces (literals, comparisons, !, an if that takes no branch, an index
\* out of range) is the one TRUE, FALSE or NULL object, so == and != by
\* identity on two Booleans or two Nulls agree with equality of the values.
C21_Singletons ==
    /\ phase \in {"running", "done"} =>
          /\ OnlySingletons(result)
          /\ \A e \in 1..Len(mem.envs) :
                \A n \in DOMAIN mem.envs[e].store : OnlySingletons(mem.envs[e].store[n])
    /\ phase = "done" /\ test.family = "value" /\ test.k \in 17..19 =>
          LET same == SingleValues[test.a] = SingleValues[test.b]
              one == Singleton(SingleValues[test.a])
          IN CASE test.k = 17 -> result = (IF same THEN TRUE_ ELSE FALSE_)
               [] test.k = 18 -> result = (IF same THEN FALSE_ ELSE TRUE_)
               [] test.k = 19 -> /\ result.type = "ARRAY"
                                 /\ result.Elements = <<one, one>>

\* (1 < 2) == !false has given true, by comparing one object with itself
C21_Witness ==
    /\ phase = "done" /\ test.family = "value" /\ test.k = 17
    /\ SingleExprs[test.a] = Infix(Lit(1), "<", Lit(2))
    /\ SingleExprs[test.b] = Prefix("!", BooleanLiteral(FALSE))
    /\ result = TRUE_

\* the step that runs the statement `let x = RHS` of the family of lets (at
\* the top level, or as the body of the function that the step calls)
LetStep == phase = "running" /\ test.family = "let" /\ pc = Len(program.Statements)

\* the store f with the bindings of g put over it
Over(f, g) == [n \in DOMAIN f \cup DOMAIN g |-> IF n \in DOMAIN g THEN g[n] ELSE f[n]]

\* the integers bound in a store
Ints(store) == [n \in {m \in DOMAIN store : store[m].type = "INTEGER"} |-> store[n].ival]

\* the let has left the environments that existed as they were, but for the
\* store of the environment it ran in, which went from `before` with the
\* bindings of `during` to `after`
LetEffect(during, c) ==
    LET inCall == test.k = 3
        cur == IF inCall THEN Len(mem.envs) + 1 ELSE env
        before == IF inCall THEN [n \in {} |-> 0] ELSE Ints(mem.envs[env].store)
        after == Ints(mem'.envs[cur].store)
    IN /\ \A e \in 1..Len(mem.envs) : e # cur => mem'.envs[e] = mem.envs[e]
       /\ Len(mem'.envs) >= cur
       /\ mem'.envs[cur].outer = (IF inCall THEN env ELSE NilEnv)
       /\ IF c.fails
          THEN result'.type = "ERROR" /\ after = Over(before, during)
          ELSE after = Over(Over(before, during), [n \in {"x"} |-> c.yields])

\* C22 as claimed: a let whose right-hand side evaluates to an error returns
\* that error and leaves the environment completely unchanged; when it
\* evaluates without error exactly the binding of the name is set in the
\* current environment and every other binding is unchanged.
C22_LetLeavesEnvironment ==
    [][LetStep => LetEffect([n \in {} |-> 0], LetCases[test.a])]_vars

\* C22, amended: the let itself binds nothing on an error and exactly its
\* name otherwise, on top of what the evaluation of its right-hand side has
\* bound in the current environment.
C22_LetBindsOnlyItsName ==
    [][LetStep => LetEffect(LetCases[test.a].binds, LetCases[test.a])]_vars

\* let y = 7; let x = 1; let x = if (true) { let w = 1; -true } has ended in
\* the error with x still 1
C22_Witness ==
    /\ phase = "done" /\ test.family = "let" /\ test.k = 2
    /\ LetCases[test.a].rhs = If(True, <<Let("w", Lit(1)), ES(Prefix("-", True))>>)
    /\ result.type = "ERROR"
    /\ Ints(mem.envs[env].store) = [n \in {"w", "x", "y"} |->
                                       IF n = "y" THEN 7 ELSE 1]

\* C23: a call of a user function with more arguments than formal
\* parameters evaluates all arguments from left to right, binds the first k
\* arguments to the k formals in order, ignores the others and evaluates the
\* body; no error `wrong number of arguments` comes of it.
C23_NoArityCheck ==
    phase \in {"done", "panic"} /\ test.family = "call" /\ test.k \in 1..2
        /\ test.b >= test.a =>
        LET k == test.a
            n == test.b
            last == mem.calls[Len(mem.calls)]
        IN /\ phase = "done"
           /\ result.type = "ARRAY"
           /\ [i \in 1..k |-> result.Elements[i].ival] = [i \in 1..k |-> 10 * i]
           /\ Ints(mem.envs[last.callEnv].store)
                  = [p \in {<<"p1", "p2", "p3">>[i] : i \in 1..k} |->
                        10 * (CHOOSE i \in 1..k : <<"p1", "p2", "p3">>[i] = p)]
           /\ test.k = 1 => Len(mem.calls) = 1
           /\ test.k = 2 =>
                 /\ Len(mem.calls) = n + 1
                 /\ \A i \in 1..n :
                       Ints(mem.envs[mem.calls[i].callEnv].store) = [v \in {"v"} |-> 10 * i]

\* fn(p1) { [p1] } called as f(g(10), g(20), g(30)) has given [10]
C23_Witness ==
    /\ phase = "done" /\ test = Test("call", 2, 1, 3)
    /\ Len(mem.calls) = 4
    /\ result.type = "ARRAY" /\ Len(result.Elements) = 1
    /\ result.Elements[1].ival = 10

\* C24: when a statement production fails (let without an identifier, or
\* the identifier without =) at least one error is recorded, no entry for the
\* failed statement is appended to Program.Statements (never a nil
\* placeholder), and ParseProgram goes on to parse the remaining input.
C24_FailedStatementNotAppended ==
    phase = "parsed" =>
        /\ \A i \in 1..Len(program.Statements) : program.Statements[i] # NilLetStatement
        /\ parser.curToken.Type = token.EOF

\* the part of C24 the code keeps: the failure is recorded and the parser
\* goes on to the end of the input
C24_FailureRecorded ==
    phase = "parsed" =>
        /\ parser.curToken.Type = token.EOF
        /\ (\E i \in 1..Len(program.Statements) : program.Statements[i] = NilLetStatement)
               => parser.errors # <<>>

\* what the code does with `let 5 x`: a nil statement, then the statements 5 and x
C24_NilStatementAppended ==
    phase = "parsed"
        /\ parser.l.input = <<Token(token.LET_, "let"), Token(token.INT, "5"),
                              Token(token.IDENT, "x")>> =>
        /\ program = Program(<<NilLetStatement, ES(Lit(5)), ES(Id("x"))>>)
        /\ parser.errors = <<"expect next token to be IDENT. got INT instead">>

\* the nodes a node holds, a missing one as NilNode
Children(node) ==
    LET k == node.node
    IN CASE k \in {"Program", "BlockStatement"} -> node.Statements
         [] k = "LetStatement" -> <<node.Value>>
         [] k = "ReturnStatement" -> <<node.ReturnValue>>
         [] k = "ExpressionStatement" -> <<node.ExpressionValue>>
         [] k = "PrefixExpression" -> <<node.Right>>
         [] k = "InfixExpression" -> <<node.Left, node.Right>>
         [] k = "IndexExpression" -> <<node.Left, node.Index>>
         [] k = "CallExpression" -> <<node.CallableName>> \o node.ActualParams
         [] k = "ArrayLiteral" -> node.Elements
         [] k = "FunctionLiteral" -> <<node.Body>>
         [] k = "IfExpression" -> <<node.Condition, node.Consequence, node.Alternative>>
         [] OTHER -> <<>>

\* the names of the formal parameters of the function literals in a node
RECURSIVE FormalParamsIn(_)
FormalParamsIn(node) ==
    (IF node.node = "FunctionLiteral"
     THEN {node.FormalParams[i] : i \in 1..Len(node.FormalParams)} ELSE {})
    \cup UNION {FormalParamsIn(Children(node)[i]) : i \in 1..Len(Children(node))}

\* C25: a function literal is accepted only as fn ( IDENT (, IDENT)* ) { Block }
\* or with no parameter: whenever a token in parameter position is not an
\* identifier the parser records an error and produces no FunctionLiteral
\* whose parameter list holds a token that is no identifier.
C25_ParametersAreIdentifiers ==
    phase = "parsed" /\ hist.first = NilNode =>
        LET toks == parser.l.input
            idents == {toks[i].Literal : i \in {j \in 1..Len(toks) : toks[j].Type = token.IDENT}}
        IN /\ FormalParamsIn(program) \subseteq idents
           /\ toks \in FunctionInputs
                 /\ (\E i \in {3, 5} : i < Len(toks) - 2 /\ toks[i].Type # token.IDENT)
                 => parser.errors # <<>>

\* what the code does with fn(1, true) { }: a function of the parameters 1 and true
C25_AnyTokenIsAParameter ==
    phase = "parsed" /\ hist.first = NilNode /\ parser.l.input \in FunctionInputs
        /\ parser.l.input[3].Type \notin {token.RPAREN, token.LBRACE}
        /\ parser.l.input[Len(parser.l.input) - 3].Type # token.LBRACE =>
        LET toks == parser.l.input
        IN /\ parser.errors = <<>>
           /\ program = Program(<<ES(Fn(IF Len(toks) = 6 THEN <<toks[3].Literal>>
                                        ELSE <<toks[3].Literal, toks[5].Literal>>, <<>>))>>)

\* the token kinds the productions of the parser ask expectPeek for
ExpectedKinds ==
    {token.IDENT, token.ASSIGN, token.LPAREN, token.RPAREN, token.LBRACE,
     token.RBRACKET}

\* the i-th token the scanner gives for the input
KindToken(input, i) == IF i <= Len(input) THEN input[i] ELSE Token(token.EOF, "")

\* the kind of the i-th token the scanner gives for the input
KindAt(input, i) == IF i <= Len(input) THEN input[i].Type ELSE token.EOF

\* expectPeek on the parser as it stands, for every kind asked for, and the
\* first message and first statement of a let and of an if whose first or
\* second expectPeek does not find its token (an if before an infix operator
\* goes on as the left operand); Message(X, Y) is the message
ExpectPeekContract(Message(_, _)) ==
    /\ phase = "parsing" =>
         \A X \in ExpectedKinds :
            LET r == expectPeek(parser, X)
            IN IF parser.peekToken.Type = X
               THEN /\ r.ok
                    /\ r.p.errors = parser.errors
                    /\ r.p.curToken = parser.peekToken
                    /\ r.p.l.position = IF parser.l.position < Len(parser.l.input)
                                        THEN parser.l.position + 1
                                        ELSE parser.l.position
                    /\ r.p.peekToken = KindToken(parser.l.input, parser.l.position + 1)
               ELSE /\ ~r.ok
                    /\ r.p.errors = Append(parser.errors, Message(X, parser.peekToken.Type))
                    /\ r.p.curToken = parser.curToken
                    /\ r.p.peekToken = parser.peekToken
                    /\ r.p.l = parser.l
    /\ phase = "parsed" /\ hist.first = NilNode /\ parser.l.input # <<>> =>
         LET toks == parser.l.input
             Y(i) == KindAt(toks, i)
             failed(X, i, stmt) ==
                 /\ parser.errors # <<>>
                 /\ parser.errors[1] = Message(X, Y(i))
                 /\ program.Statements[1] = stmt
         IN /\ Y(1) = token.LET_ /\ Y(2) # token.IDENT => failed(token.IDENT, 2, NilLetStatement)
            /\ Y(1) = token.LET_ /\ Y(2) = token.IDENT /\ Y(3) # token.ASSIGN
                 => failed(token.ASSIGN, 3, NilLetStatement)
            /\ Y(1) = token.IF_ /\ Y(2) \notin infixParseFns
                 => failed(token.LPAREN, 2, ExpressionStatement(NilNode))
            /\ Y(1) = token.LET_ /\ Y(2) = token.IDENT /\ Y(3) = token.ASSIGN
                 /\ Y(4) = token.INT /\ Y(5) \in {token.SEMICOLON, token.EOF, token.LET_}
                 => /\ program.Statements[1] = Let(toks[2].Literal, Lit(5))
                    /\ (Len(toks) <= 5 => parser.errors = <<>>)

\* C26: when a production requires a next token and the peek token is of
\* another kind, exactly one message "expected X, got Y" is appended, the
\* current and the peek token stay, and the production returns nil; when the
\* peek token matches, the parser advances by one token and records nothing.
C26_ExpectedGotMessage ==
    ExpectPeekContract(LAMBDA X, Y : "expected " \o X \o ", got " \o Y)

\* C26 as amended: the same, the message being
\* "expect next token to be X. got Y instead".
C26_ExpectPeek ==
    ExpectPeekContract(LAMBDA X, Y :
        "expect next token to be " \o X \o ". got " \o Y \o " instead")

\* let x 5 has been parsed: one message, a nil let statement, and then the
\* statement 5 from the token that was not consumed
C26_Witness ==
    /\ phase = "parsed"
    /\ Len(parser.l.input) = 3
    /\ KindAt(parser.l.input, 1) = token.LET_
    /\ KindAt(parser.l.input, 2) = token.IDENT
    /\ KindAt(parser.l.input, 3) = token.INT
    /\ parser.errors = <<"expect next token to be =. got INT instead">>
    /\ program = Program(<<NilLetStatement, ES(Lit(5))>>)

\* the parse of an input of IllegalCases is over: the errors are the one
\* message, and the program has no expression where the token stood
IllegalToken(message) ==
    phase = "parsed" =>
        \A i \in DOMAIN IllegalCases :
            parser.l.input = IllegalCases[i].toks =>
                /\ parser.errors = <<message>>
                /\ program = IllegalCases[i].program

\* C27: a token of the kind ILLEGAL in expression position makes the parser
\* record exactly the message "no prefix parse function for ILLEGAL found" and
\* yield no expression for that position.
C27_IllegalMessage == IllegalToken("no prefix parse function for ILLEGAL found")

\* what the code records: the kind ILLEGAL is the string ILLEGA
C27_IllegaMessage == IllegalToken("no prefix parse function for ILLEGA found")

\* no node is missing in the tree: every statement is one, and every child a
\* node requires is there (the alternative of an if is not required)
RECURSIVE Complete(_)
Complete(node) ==
    /\ node.node \notin {NilNode.node, NilLetStatement.node}
    /\ \A i \in 1..Len(Children(node)) :
          \/ node.node = "IfExpression" /\ i = 3 /\ Children(node)[i] = NilNode
          \/ Complete(Children(node)[i])

C29_CallEnvironments ==
    /\ \A i \in 1..Len(mem.calls) :
          LET c == mem.calls[i]
          IN /\ c.callEnv \notin 1..Len(c.before)
             /\ c.callEnv \in 1..Len(c.after)
             /\ c.after[c.callEnv].outer = c.defined
             /\ c.callEnv \in 1..Len(mem.envs)
             /\ mem.envs[c.callEnv].outer = c.defined
             /\ \A j \in 1..Len(mem.calls) : j # i => mem.calls[j].callEnv # c.callEnv
    /\ test.family = "call" /\ test.k = 3 /\ phase = "done" =>
          LET call(i) == mem.calls[i]
              store(i) == Ints(mem.envs[call(i).callEnv].store)
          IN /\ Len(mem.calls) = 5
             /\ store(1) = [v \in {"x"} |-> test.a]
             /\ store(3) = [v \in {"x"} |-> test.b]
             /\ \A i \in {2, 4, 5} : store(i) = [v \in {"y"} |-> 10]
             /\ call(2).defined = call(1).callEnv
             /\ call(4).defined = call(1).callEnv
             /\ call(5).defined = call(3).callEnv
             /\ call(1).callEnv # call(3).callEnv
             /\ result.type = "ARRAY"
             /\ Len(result.Elements) = 3
             /\ IsInteger(result.Elements[1], test.a + 10)
             /\ IsInteger(result.Elements[2], test.a + 10)
             /\ IsInteger(result.Elements[3], test.b + 10)

\* adder(2) and adder(1) have been called, and their closures three times
C29_Witness ==
    /\ test.family = "call" /\ test.k = 3 /\ test.a = 2 /\ test.b = 1
    /\ phase = "done"
    /\ Len(mem.calls) = 5
    /\ IsInteger(result.Elements[2], 12)
    /\ IsInteger(result.Elements[3], 11)

\* C30: if-blocks do not open a scope: the consequence and the alternative
\* run in the environment of the if, so that a let inside an if-block binds
\* or overwrites the name in the environment of the enclosing call or program
\* and the binding is there after the if; only calls of functions create
\* environments.
C30_IfBlocksShareScope ==
    /\ phase \in {"running", "done"} => Len(mem.envs) = 1 + Len(mem.calls)
    /\ test.family = "call" /\ test.k = 4 /\ phase = "done" =>
          /\ Ints(mem.envs[env].store) =
                IF test.a < 2 THEN [n \in {"x", "w"} |-> IF n = "x" THEN test.b ELSE 1]
                ELSE [n \in {"x", "u"} |-> IF n = "x" THEN test.a ELSE test.b]
          /\ IsInteger(result, IF test.a < 2 THEN test.b ELSE test.a)
    /\ test.family = "call" /\ test.k = 5 /\ phase = "done" =>
          /\ Len(mem.calls) = 2
          /\ Ints(mem.envs[mem.calls[1].callEnv].store) = [n \in {"v"} |-> test.a]
          /\ Ints(mem.envs[mem.calls[2].callEnv].store) = [n \in {"v", "u"} |-> test.b]
          /\ DOMAIN mem.envs[env].store = {"f"}
          /\ result.type = "ARRAY"
          /\ Len(result.Elements) = 2
          /\ IsInteger(result.Elements[1], test.a)
          /\ IsInteger(result.Elements[2], test.b)

\* let x = 1; if (x < 2) { let x = 3; let w = 1 } ...; x has given 3, in the
\* one environment there is
C30_Witness ==
    /\ test.family = "call" /\ test.k = 4 /\ test.a = 1 /\ test.b = 3
    /\ phase = "done"
    /\ Len(mem.envs) = 1
    /\ Ints(mem.envs[env].store) = [n \in {"x", "w"} |-> IF n = "x" THEN 3 ELSE 1]
    /\ IsInteger(result, 3)

====
